---- MODULE Spec2Model ----
(***************************************************************************)
(* SwiftParser-OSS: the facade (SwiftParserOSS), its format detector, the  *)
(* per-format extractors and the batch runner.                             *)
(*                                                                         *)
(* A JavaScript string is modelled as a sequence of tokens: a token is a   *)
(* run of characters that the program's substring and regular-expression   *)
(* tests never split.  'includes' is "occurs as a contiguous run of        *)
(* tokens", 'startsWith' is "is a prefix", 'trim' strips whitespace tokens *)
(* from both ends, and toUpperCase maps token by token.  A JavaScript      *)
(* value is a record [t, s]: its type and, for a string, its tokens.       *)
(***************************************************************************)
EXTENDS Integers, Sequences, FiniteSets, TLC

VARIABLES metrics, call, snapshot

vars == <<metrics, call, snapshot>>

(***************************************************************************)
(* Bounds of the model.                                                    *)
(***************************************************************************)
MaxCalls == 3
MaxBatch == 2

(***************************************************************************)
(* JavaScript values.                                                      *)
(***************************************************************************)
Null == [t |-> "null", s |-> <<>>]
Undefined == [t |-> "undefined", s |-> <<>>]
Number123 == [t |-> "number", s |-> <<"123">>]
Number0 == [t |-> "number", s |-> <<"0">>]
Str(toks) == [t |-> "string", s |-> toks]

IsString(v) == v.t = "string"

\* !v of JavaScript: null, undefined, 0 and the empty string are falsy.
Falsy(v) ==
    \/ v.t \in {"null", "undefined"}
    \/ v.t = "string" /\ v.s = <<>>
    \/ v.t = "number" /\ v.s = <<"0">>

(***************************************************************************)
(* String primitives over token sequences.                                 *)
(***************************************************************************)
\* Blank10 is a run of ten spaces.
Blank10 == "          "
Whitespace == {" ", "\n", Blank10}

Includes(s, pat) ==
    \E i \in 1..(Len(s) - Len(pat) + 1) : SubSeq(s, i, i + Len(pat) - 1) = pat

StartsWith(s, pat) ==
    /\ Len(pat) <= Len(s)
    /\ SubSeq(s, 1, Len(pat)) = pat

RECURSIVE TrimStart(_)
TrimStart(s) ==
    IF s # <<>> /\ Head(s) \in Whitespace THEN TrimStart(Tail(s)) ELSE s

RECURSIVE TrimEnd(_)
TrimEnd(s) ==
    IF s # <<>> /\ s[Len(s)] \in Whitespace
    THEN TrimEnd(SubSeq(s, 1, Len(s) - 1))
    ELSE s

Trim(s) == TrimEnd(TrimStart(s))

UpperTok(tok) ==
    CASE tok = "mt" -> "MT"
      [] tok = "iso20022" -> "ISO20022"
      [] tok = "pacs.008" -> "PACS.008"
      [] tok = "bancs" -> "BANCS"
      [] tok = "fis" -> "FIS"
      [] tok = "erv" -> "ERV"
      [] tok = "dna" -> "DNA"
      [] tok = "json" -> "JSON"
      [] tok = "xml" -> "XML"
      [] tok = "temenos" -> "TEMENOS"
      [] tok = "identification division" -> "IDENTIFICATION DIVISION"
      [] tok = "picsx" -> "PICSX"
      [] tok = "PICsX" -> "PICSX"
      [] tok = "COPYsw" -> "COPYSW"
      [] tok = "d" -> "D"
      [] tok = "e" -> "E"
      [] tok = "u" -> "U"
      [] tok = "t" -> "T"
      [] tok = "f" -> "F"
      [] tok = "ß" -> "SS"
      [] OTHER -> tok

RECURSIVE ToUpperCase(_)
ToUpperCase(s) ==
    IF s = <<>> THEN <<>> ELSE <<UpperTok(Head(s))>> \o ToUpperCase(Tail(s))

\* String.prototype.length: a token counts its characters.
RECURSIVE Length(_)
Length(s) == IF s = <<>> THEN 0 ELSE Len(Head(s)) + Length(Tail(s))

(***************************************************************************)
(* Format labels and message types.                                        *)
(***************************************************************************)
MT(code) == <<"MT", code>>

Label ==
    [ ISO20022 |-> <<"ISO20022">>,
      BANCS_XML |-> <<"BANCS", "_", "XML">>,
      BANCS_JSON |-> <<"BANCS", "_", "JSON">>,
      BANCS_FLAT |-> <<"BANCS", "_", "FLAT">>,
      FIS_FIXED |-> <<"FIS", "_", "FIXED">>,
      FIS_JSON |-> <<"FIS", "_", "JSON">>,
      FIS_DELIMITED |-> <<"FIS", "_", "DELIMITED">>,
      FISERV_DNA |-> <<"FIS", "ERV", "_", "DNA">>,
      TEMENOS_JSON |-> <<"TEMENOS", "_", "JSON">>,
      TEMENOS_XML |-> <<"TEMENOS", "_", "XML">>,
      TEMENOS_T24 |-> <<"TEMENOS", "_", "T24">>,
      COBOL |-> <<"COBOL">>,
      UNKNOWN |-> <<"UNKNOWN">>,
      pacs008 |-> <<"pacs.008">> ]

(***************************************************************************)
(* JSON.parse.  A JSON text is, between optional whitespace, a scalar      *)
(* token or an object: the token {"v":1 , then members, then "}".  A       *)
(* member is a member token (a comma, a key and a value) or a text member: *)
(* the token ,"description":" , then tokens that hold no quote and no line *)
(* break, then the closing quote.  Parsed values are records tagged jt.    *)
(***************************************************************************)
J(tag) == [jt |-> tag]
JString(toks) == [jt |-> "string", s |-> toks]
JObject(fields) == [jt |-> "object", f |-> fields]

Pad80 == "xxxxxxxxxxxxxxxxxxxxxxxxxxxxxxxxxxxxxxxxxxxxxxxxxxxxxxxxxxxxxxxxxxxxxxxxxxxxxxxx"

JsonScalars ==
    ( "null" :> J("null") ) @@ ( "123" :> J("number") ) @@ ( "true" :> J("true") )
    @@ ( "[]" :> J("array") ) @@ ( "\"DNA1\"" :> JString(<<"DNA", "1">>) )

JsonMembers ==
    ( ",\"transactionId\":\"DNA1\"" :> [key |-> "transactionId", val |-> JString(<<"DNA", "1">>)] )
    @@ ( ",\"transactionId\":\"TXN1\"" :> [key |-> "transactionId", val |-> JString(<<"TXN", "1">>)] )
    @@ ( ",\"transactionId\":\"ABC1\"" :> [key |-> "transactionId", val |-> JString(<<"ABC", "1">>)] )
    @@ ( ",\"transactionId\":\"\"" :> [key |-> "transactionId", val |-> JString(<<>>)] )
    @@ ( ",\"transactionId\":123" :> [key |-> "transactionId", val |-> J("number")] )
    @@ ( ",\"transactionId\":0" :> [key |-> "transactionId", val |-> J("zero")] )
    @@ ( ",\"transactionId\":null" :> [key |-> "transactionId", val |-> J("null")] )
    @@ ( ",\"transactionType\":\"CREDIT\"" :> [key |-> "transactionType", val |-> JString(<<"CREDIT">>)] )
    @@ ( ",\"branchCode\":\"BR001\"" :> [key |-> "branchCode", val |-> JString(<<"BR001">>)] )
    @@ ( ",\"branchCode\":\"\"" :> [key |-> "branchCode", val |-> JString(<<>>)] )
    @@ ( ",\"accountNumber\":\"ACC1\"" :> [key |-> "accountNumber", val |-> JString(<<"ACC", "1">>)] )
    @@ ( ",\"customerName\":\"" \o Pad80 \o "\"" :> [key |-> "customerName", val |-> JString(<<Pad80>>)] )
    @@ ( ",\"header\":{\"messageId\":\"TMN1\"}" :>
            [key |-> "header", val |-> JObject([messageId |-> JString(<<"TMN", "1">>)])] )
    @@ ( ",\"header\":{\"messageId\":\"XYZ1\"}" :>
            [key |-> "header", val |-> JObject([messageId |-> JString(<<"XYZ", "1">>)])] )
    @@ ( ",\"header\":{\"messageId\":123}" :>
            [key |-> "header", val |-> JObject([messageId |-> J("number")])] )
    @@ ( ",\"header\":{}" :> [key |-> "header", val |-> JObject(<<>>)] )
    @@ ( ",\"header\":null" :> [key |-> "header", val |-> J("null")] )
    @@ ( ",\"header\":\"TMN1\"" :> [key |-> "header", val |-> JString(<<"TMN", "1">>)] )

ObjectOpen == "{\"v\":1"
TextMemberOpen == ",\"description\":\""
Quote == "\""

\* Tokens that may not stand inside a JSON string literal.
BreaksJsonString(tok) ==
    \/ tok \in {Quote, TextMemberOpen, ObjectOpen, "\"DNA1\"", "\n"}
    \/ tok \in DOMAIN JsonMembers

\* The members of s from position i on, added to the fields acc; s ends with "}".
RECURSIVE ParseMembers(_, _, _)
ParseMembers(s, i, acc) ==
    IF i > Len(s) THEN J("SyntaxError")
    ELSE IF s[i] = "}" THEN (IF i = Len(s) THEN JObject(acc) ELSE J("SyntaxError"))
    ELSE IF s[i] \in DOMAIN JsonMembers
         THEN ParseMembers(s, i + 1,
                  (JsonMembers[s[i]].key :> JsonMembers[s[i]].val) @@ acc)
    ELSE IF s[i] = TextMemberOpen
         THEN LET closes == {j \in (i + 1)..Len(s) : BreaksJsonString(s[j])}
              IN  IF closes = {} THEN J("SyntaxError")
                  ELSE LET j == CHOOSE c \in closes : \A d \in closes : c <= d
                       IN  IF s[j] # Quote THEN J("SyntaxError")
                           ELSE ParseMembers(s, j + 1,
                                    ("description" :> JString(SubSeq(s, i + 1, j - 1))) @@ acc)
    ELSE J("SyntaxError")

JSONParse(s) ==
    LET body == Trim(s)
    IN  IF Len(body) = 1 /\ body[1] \in DOMAIN JsonScalars THEN JsonScalars[body[1]]
        ELSE IF body # <<>> /\ body[1] = ObjectOpen
             THEN ParseMembers(body, 2, [v |-> J("number")])
        ELSE J("SyntaxError")

\* v.key of JavaScript, for v neither null nor undefined.
Prop(v, key) ==
    IF v.jt = "object" /\ key \in DOMAIN v.f THEN v.f[key] ELSE J("undefined")

JTruthy(v) ==
    /\ v.jt \notin {"null", "undefined", "zero", "SyntaxError"}
    /\ v.jt = "string" => v.s # <<>>

\* x.startsWith is a function only on strings; calling it elsewhere is a TypeError.
HasStartsWith(v) == v.jt = "string"

(***************************************************************************)
(* The COBOL stub.  Its indicators are the regular expressions of the            *)
(* source as written there: /^s*d{6}s+/m, /IDENTIFICATION DIVISION/i,      *)
(* /DATA DIVISION/i, /PROCEDURE DIVISION/i, /PICs+[X9]/i, /COPYs+w+/i.     *)
(* The tokens "dddddds", "PICsX" and "COPYsw" are texts they match; the    *)
(* tokens "000100 ", "PIC X(10)" and "COPY BOOK1" are COBOL texts that           *)
(* they do not match.                                                      *)
(***************************************************************************)
cobolIndicators(data) ==
    LET upper == ToUpperCase(data)
    IN  <<  \E i \in DOMAIN data : data[i] = "dddddds" /\ (i = 1 \/ data[i - 1] = "\n"),
            Includes(upper, <<"IDENTIFICATION DIVISION">>),
            Includes(upper, <<"DATA DIVISION">>),
            Includes(upper, <<"PROCEDURE DIVISION">>),
            Includes(upper, <<"PICSX">>),
            Includes(upper, <<"COPYSW">>)  >>

detectCOBOL(data) ==
    LET indicators == cobolIndicators(data)
    IN  \E k \in DOMAIN indicators : indicators[k]

(***************************************************************************)
(* An outcome of a call: a returned value or a thrown Error (its message). *)
(***************************************************************************)
Return(v) == [kind |-> "return", value |-> v, error |-> <<>>]
Throw(msg) == [kind |-> "throw", value |-> Undefined, error |-> msg]

Returned(o) == o.kind = "return"
Thrown(o) == o.kind = "throw"

CobolEnterpriseMessage ==
    <<"COBOL copybook detected. ", "COBOL parsing requires SwiftParser Enterprise",
      ". Visit https://gridworks.ai/enterprise or contact enterprise@gridworks.ai">>

\* A faulty variant: the stub returns null on a detected copybook.
parseCOBOLReturnsNull(data) == Return(Null)

parseCOBOL(data) ==
    IF detectCOBOL(data) THEN Throw(CobolEnterpriseMessage) ELSE Return(Null)

(***************************************************************************)
(* SwiftParserOSS.detectFormat                                             *)
(***************************************************************************)
\* The codes d of the header tokens "I" d, d three digits.
HeaderDigits ==
    ( "I103" :> "103" ) @@ ( "I202" :> "202" ) @@ ( "I515" :> "515" ) @@ ( "I999" :> "999" )
    @@ ( "I700" :> "700" ) @@ ( "I798" :> "798" ) @@ ( "I950" :> "950" ) @@ ( "I101" :> "101" )

\* The positions where /\{2:I(\d{3})/ matches.
HeaderMatches(s) ==
    {i \in 1..(Len(s) - 1) : s[i] = "{2:" /\ s[i + 1] \in DOMAIN HeaderDigits}

\* match[1] of the leftmost match.
HeaderCode(s) ==
    LET i == CHOOSE m \in HeaderMatches(s) : \A n \in HeaderMatches(s) : m <= n
    IN  HeaderDigits[s[i + 1]]

\* The messages of the errors the JavaScript runtime throws.
SyntaxErrorMessage == <<"Unexpected token in JSON">>
NullReadMessage == <<"Cannot read properties of null">>
NotAFunctionMessage(what) == <<what, " is not a function">>

\* The try block falls through to the code after it when it returns nothing.
FallsThrough == Return(Undefined)

\* Lines 159-174: the body of the try block.  JSON.parse throws a SyntaxError
\* on a text that is not JSON; reading a property of null and calling
\* startsWith on a value that is not a string throw a TypeError.
jsonDiscriminator(s) ==
    LET Inspect(parsed) ==
            LET id == Prop(parsed, "transactionId")
                header == Prop(parsed, "header")
                messageId == Prop(header, "messageId")
            IN  IF parsed.jt = "SyntaxError" THEN Throw(SyntaxErrorMessage)
                ELSE IF parsed.jt = "null" THEN Throw(NullReadMessage)
                ELSE IF JTruthy(id) /\ ~HasStartsWith(id)
                THEN Throw(NotAFunctionMessage("parsed.transactionId.startsWith"))
                ELSE IF JTruthy(id) /\ StartsWith(id.s, <<"DNA">>)
                THEN Return(Str(Label.FISERV_DNA))
                ELSE IF JTruthy(id) /\ StartsWith(id.s, <<"TXN">>)
                     THEN IF /\ JTruthy(Prop(parsed, "transactionType"))
                             /\ JTruthy(Prop(parsed, "branchCode"))
                          THEN Return(Str(Label.FIS_JSON))
                          ELSE Return(Str(Label.BANCS_JSON))
                ELSE IF ~JTruthy(header) \/ ~JTruthy(messageId) THEN FallsThrough
                ELSE IF ~HasStartsWith(messageId)
                THEN Throw(NotAFunctionMessage("parsed.header.messageId.startsWith"))
                ELSE IF StartsWith(messageId.s, <<"TMN">>) THEN Return(Str(Label.TEMENOS_JSON))
                ELSE FallsThrough
    IN  Inspect(JSONParse(s))

\* A faulty variant: the try statement without its catch.
tryJsonDetectionNoCatch(s) == jsonDiscriminator(s)

\* Lines 158-177: try { ... } catch (e) { }.  The empty catch swallows the
\* error and the code goes on after it.
tryJsonDetection(s) ==
    LET Catch(o) == IF Thrown(o) THEN FallsThrough ELSE o
    IN  Catch(jsonDiscriminator(s))

\* A faulty variant: the BANCS rule tried before the ISO 20022 rule.
detectFormatBancsBeforeIso(message) ==
    IF Falsy(message) \/ ~IsString(message) THEN Return(Str(Label.UNKNOWN))
    ELSE LET s == message.s
             AfterJson(json) ==
                 IF json # FallsThrough
                 THEN json
                 ELSE IF Includes(s, <<"<", "Temenos", "Transaction", ">">>)
                 THEN Return(Str(Label.TEMENOS_XML))
                 ELSE IF detectCOBOL(s)
                 THEN Return(Str(Label.COBOL))
                 ELSE Return(Str(Label.UNKNOWN))
         IN  IF /\ Includes(s, <<"{1:">>) /\ Includes(s, <<"{2:">>) /\ Includes(s, <<"{4:">>)
                /\ HeaderMatches(s) # {}
             THEN Return(Str(MT(HeaderCode(s))))
             ELSE IF \/ Includes(s, <<"<", "Transaction", ">">>)
                     \/ Includes(s, <<"Transaction", "ID">>)
             THEN Return(Str(Label.BANCS_XML))
             ELSE IF Includes(s, <<"<?xml">>) /\ Includes(s, <<"urn:iso:std:iso:20022">>)
             THEN Return(Str(Label.ISO20022))
             ELSE AfterJson(tryJsonDetection(s))

\* Lines 134-190.  An error that leaves the try statement uncaught would
\* leave detectFormat.
detectFormat(message) ==
    IF Falsy(message) \/ ~IsString(message) THEN Return(Str(Label.UNKNOWN))
    ELSE LET s == message.s
             AfterJson(json) ==
                 IF json # FallsThrough
                 THEN json
                 ELSE IF Includes(s, <<"<", "Temenos", "Transaction", ">">>)
                 THEN Return(Str(Label.TEMENOS_XML))
                 ELSE IF detectCOBOL(s)
                 THEN Return(Str(Label.COBOL))
                 ELSE Return(Str(Label.UNKNOWN))
         IN  IF /\ Includes(s, <<"{1:">>) /\ Includes(s, <<"{2:">>) /\ Includes(s, <<"{4:">>)
                /\ HeaderMatches(s) # {}
             THEN Return(Str(MT(HeaderCode(s))))
             ELSE IF Includes(s, <<"<?xml">>) /\ Includes(s, <<"urn:iso:std:iso:20022">>)
             THEN Return(Str(Label.ISO20022))
             ELSE IF \/ Includes(s, <<"<", "Transaction", ">">>)
                     \/ Includes(s, <<"Transaction", "ID">>)
             THEN Return(Str(Label.BANCS_XML))
             ELSE AfterJson(tryJsonDetection(s))

(***************************************************************************)
(* What a call reads from its environment: the elapsed milliseconds        *)
(* between the two readings of process.hrtime, the value uuidv4() gives    *)
(* and the time new Date() gives.                                          *)
(***************************************************************************)
Envs ==
    { [elapsed |-> 0, uuid |-> "uuid-1", now |-> "2024-07-01T10:00:00.000Z"],
      [elapsed |-> 3, uuid |-> "uuid-2", now |-> "2024-07-01T10:00:00.003Z"] }

\* catch (error) { throw new Error(`<prefix>: ${error.message}`) }
Rethrow(prefix, o) == IF Thrown(o) THEN Throw(<<prefix>> \o o.error) ELSE o

Metadata(env, parser, format) == [parseId |-> env.uuid, parser |-> parser, format |-> format]

(***************************************************************************)
(* String.prototype.substring(from, to) on tokens: the tokens that lie     *)
(* wholly in [from, to); a token cut by a boundary leaves the fragment     *)
(* token "~".                                                              *)
(***************************************************************************)
RECURSIVE SubstringFrom(_, _, _, _)
SubstringFrom(s, offset, from, to) ==
    IF s = <<>> THEN <<>>
    ELSE LET lo == offset
             hi == offset + Len(Head(s))
             piece == IF hi <= from \/ lo >= to THEN <<>>
                      ELSE IF lo >= from /\ hi <= to THEN <<Head(s)>>
                      ELSE <<"~">>
         IN  piece \o SubstringFrom(Tail(s), hi, from, to)

Substring(s, from, to) == SubstringFrom(s, 0, from, to)

\* String.prototype.split(sep) for a separator token: the pieces between them.
RECURSIVE Split(_, _)
Split(s, sep) ==
    LET at == {i \in DOMAIN s : s[i] = sep}
    IN  IF at = {} THEN <<s>>
        ELSE LET i == CHOOSE a \in at : \A b \in at : a <= b
             IN  <<SubSeq(s, 1, i - 1)>> \o Split(SubSeq(s, i + 1, Len(s)), sep)

\* parseFloat: the number a leading numeric token spells, else NaN.
NumericTokens == {"5000.00", "000250000", "4500.00", "2500"}
NaN == [t |-> "number", s |-> <<"NaN">>]
ParseFloat(s) ==
    LET body == TrimStart(s)
    IN  IF body # <<>> /\ Head(body) \in NumericTokens
        THEN [t |-> "number", s |-> <<Head(body)>>]
        ELSE NaN

\* x / 100 of a number x, kept as the quotient's expression.
DividedBy100(x) == IF x = NaN THEN NaN ELSE [t |-> "number", s |-> x.s \o <<"/100">>]

(***************************************************************************)
(* BANCSParser (src/unnamed/part_002)                                      *)
(***************************************************************************)
\* The class defines no extractXMLField: the first call of it is a TypeError.
bancs_parseXML(s, env) ==
    Rethrow("BANCS XML parsing failed: ",
        IF ~Includes(s, <<"<", "Transaction", ">">>)
        THEN Throw(<<"Invalid BANCS XML: missing Transaction element">>)
        ELSE Throw(NotAFunctionMessage("this.extractXMLField")))

bancs_parseJSON(s, env) ==
    LET From(data) ==
            IF data.jt = "SyntaxError" THEN Throw(SyntaxErrorMessage)
            ELSE IF data.jt = "null" THEN Throw(NullReadMessage)
            ELSE IF ~JTruthy(Prop(data, "transactionId"))
            THEN Throw(<<"Invalid BANCS JSON: missing transactionId">>)
            ELSE Return([
                messageType |-> Label.BANCS_JSON,
                transactionId |-> Prop(data, "transactionId"),
                accountNumber |-> Prop(data, "accountNumber"),
                amount |-> Prop(data, "amount"),
                currency |-> Prop(data, "currency"),
                valueDate |-> Prop(data, "valueDate"),
                description |-> Prop(data, "description"),
                customerName |-> Prop(data, "customerName"),
                branchCode |-> Prop(data, "branchCode"),
                timestamp |-> env.now,
                parseMetadata |-> Metadata(env, "BANCS", "JSON")])
    IN  Rethrow("BANCS JSON parsing failed: ", From(JSONParse(s)))

bancs_parseFlat(s, env) ==
    Rethrow("BANCS flat file parsing failed: ",
        IF Length(s) < 50
        THEN Throw(<<"Invalid BANCS flat file: message too short">>)
        ELSE Return([
            messageType |-> Label.BANCS_FLAT,
            transactionId |-> Trim(Substring(s, 0, 15)),
            accountNumber |-> Trim(Substring(s, 15, 30)),
            amount |-> ParseFloat(Trim(Substring(s, 30, 42))),
            currency |-> Trim(Substring(s, 42, 47)),
            valueDate |-> Trim(Substring(s, 47, 55)),
            description |-> Trim(Substring(s, 55, Length(s))),
            timestamp |-> env.now,
            parseMetadata |-> Metadata(env, "BANCS", "FLAT")]))

(***************************************************************************)
(* FISParser (src/src/parsers/banking/fis-parser.js)                       *)
(***************************************************************************)
\* A faulty variant: the columns cut without the length check.
fis_parseFixedWidthUnchecked(s, env) ==
    Rethrow("FIS fixed width parsing failed: ",
        Return([
            messageType |-> Label.FIS_FIXED,
            recordType |-> Substring(s, 0, 2),
            transactionId |-> Trim(Substring(s, 2, 17)),
            amount |-> DividedBy100(ParseFloat(Trim(Substring(s, 32, 41)))),
            timestamp |-> env.now,
            parseMetadata |-> Metadata(env, "FIS", "FIXED_WIDTH")]))

fis_parseFixedWidth(s, env) ==
    Rethrow("FIS fixed width parsing failed: ",
        IF Length(s) < 100
        THEN Throw(<<"Invalid FIS fixed width: message too short">>)
        ELSE Return([
            messageType |-> Label.FIS_FIXED,
            recordType |-> Substring(s, 0, 2),
            transactionId |-> Trim(Substring(s, 2, 17)),
            accountNumber |-> Trim(Substring(s, 17, 32)),
            amount |-> DividedBy100(ParseFloat(Trim(Substring(s, 32, 41)))),
            currency |-> Trim(Substring(s, 41, 44)),
            valueDate |-> Trim(Substring(s, 44, 52)),
            transactionType |-> Trim(Substring(s, 52, 55)),
            description |-> Trim(Substring(s, 55, 100)),
            customerName |-> Trim(Substring(s, 100, 150)),
            branchCode |-> Trim(Substring(s, 150, 154)),
            timestamp |-> env.now,
            parseMetadata |-> Metadata(env, "FIS", "FIXED_WIDTH")]))

fis_parseJSON(s, env) ==
    LET From(data) ==
            IF data.jt = "SyntaxError" THEN Throw(SyntaxErrorMessage)
            ELSE IF data.jt = "null" THEN Throw(NullReadMessage)
            ELSE IF ~JTruthy(Prop(data, "transactionId"))
            THEN Throw(<<"Invalid FIS JSON: missing transactionId">>)
            ELSE Return([
                messageType |-> Label.FIS_JSON,
                transactionId |-> Prop(data, "transactionId"),
                accountNumber |-> Prop(data, "accountNumber"),
                amount |-> Prop(data, "amount"),
                currency |-> Prop(data, "currency"),
                valueDate |-> Prop(data, "valueDate"),
                transactionType |-> Prop(data, "transactionType"),
                description |-> Prop(data, "description"),
                customerName |-> Prop(data, "customerName"),
                branchCode |-> Prop(data, "branchCode"),
                timestamp |-> env.now,
                parseMetadata |-> Metadata(env, "FIS", "JSON")])
    IN  Rethrow("FIS JSON parsing failed: ", From(JSONParse(s)))

fis_parseDelimited(s, env) ==
    LET fields == Split(s, "|")
    IN  Rethrow("FIS delimited parsing failed: ",
            IF Len(fields) < 8
            THEN Throw(<<"Invalid FIS delimited: insufficient fields">>)
            ELSE Return([
                messageType |-> Label.FIS_DELIMITED,
                transactionId |-> fields[1],
                accountNumber |-> fields[2],
                amount |-> ParseFloat(fields[3]),
                currency |-> fields[4],
                valueDate |-> fields[5],
                transactionType |-> fields[6],
                description |-> fields[7],
                customerName |-> fields[8],
                branchCode |-> IF Len(fields) >= 9 THEN fields[9] ELSE <<>>,
                timestamp |-> env.now,
                parseMetadata |-> Metadata(env, "FIS", "DELIMITED")]))

(***************************************************************************)
(* FiservParser (src/src/parsers/banking/fiserv-parser.js)                 *)
(***************************************************************************)
fiserv_parseDNA(s, env) ==
    LET From(data) ==
            LET id == Prop(data, "transactionId")
            IN  IF data.jt = "SyntaxError" THEN Throw(SyntaxErrorMessage)
                ELSE IF data.jt = "null" THEN Throw(NullReadMessage)
                ELSE IF ~JTruthy(id)
                THEN Throw(<<"Invalid Fiserv DNA JSON: missing or invalid transactionId">>)
                ELSE IF ~HasStartsWith(id)
                THEN Throw(NotAFunctionMessage("data.transactionId.startsWith"))
                ELSE IF ~StartsWith(id.s, <<"DNA">>)
                THEN Throw(<<"Invalid Fiserv DNA JSON: missing or invalid transactionId">>)
                ELSE Return([
                    messageType |-> Label.FISERV_DNA,
                    transactionId |-> id,
                    accountNumber |-> Prop(data, "accountNumber"),
                    amount |-> Prop(data, "amount"),
                    currency |-> Prop(data, "currency"),
                    valueDate |-> Prop(data, "valueDate"),
                    description |-> Prop(data, "description"),
                    customerName |-> Prop(data, "customerName"),
                    branchCode |-> Prop(data, "branchCode"),
                    timestamp |-> env.now,
                    parseMetadata |-> Metadata(env, "FISERV", "DNA")])
    IN  Rethrow("Fiserv DNA parsing failed: ", From(JSONParse(s)))

(***************************************************************************)
(* TemenosParser (src/src/parsers/banking/temenos-parser.js)               *)
(***************************************************************************)
temenos_parseJSON(s, env) ==
    LET From(data) ==
            LET header == Prop(data, "header")
            IN  IF data.jt = "SyntaxError" THEN Throw(SyntaxErrorMessage)
                ELSE IF data.jt = "null" THEN Throw(NullReadMessage)
                ELSE IF ~JTruthy(header) \/ ~JTruthy(Prop(header, "messageId"))
                THEN Throw(<<"Invalid Temenos JSON: missing header or messageId">>)
                ELSE Return([
                    messageType |-> Label.TEMENOS_JSON,
                    header |-> header,
                    transaction |-> Prop(data, "transaction"),
                    debitAccount |-> Prop(data, "debitAccount"),
                    creditAccount |-> Prop(data, "creditAccount"),
                    narrative |-> Prop(data, "narrative"),
                    timestamp |-> env.now,
                    parseMetadata |-> Metadata(env, "TEMENOS", "JSON")])
    IN  Rethrow("Temenos JSON parsing failed: ", From(JSONParse(s)))

\* xml2js's Parser.parseString hands the document to the callback and returns
\* its SAX parser (true for a blank text): whatever it returns has no
\* TemenosTransaction property, and the callback's return value is dropped.
temenos_parseXML(s, env) ==
    Rethrow("Temenos XML parsing failed: ",
        Throw(<<"Invalid Temenos XML: missing TemenosTransaction element">>))

\* lines.forEach: a line with "=" sets fields[key] to the text between the
\* first and the second "=" (the destructuring keeps two pieces of the split).
RECURSIVE T24Fields(_, _)
T24Fields(lines, fields) ==
    IF lines = <<>> THEN fields
    ELSE LET line == Head(lines)
             pieces == Split(line, "=")
         IN  IF Includes(line, <<"=">>)
             THEN T24Fields(Tail(lines), (Trim(pieces[1]) :> Trim(pieces[2])) @@ fields)
             ELSE T24Fields(Tail(lines), fields)

\* fields[key] of the T24 mapping; undefined is the marker token "undefined".
T24Get(fields, key) ==
    IF <<key>> \in DOMAIN fields THEN fields[<<key>>] ELSE <<"undefined">>

temenos_parseT24(s, env) ==
    LET fields == T24Fields(Split(s, "\n"), <<>>)
    IN  Rethrow("Temenos T24 parsing failed: ",
            IF <<"TXN.REF">> \notin DOMAIN fields \/ fields[<<"TXN.REF">>] = <<>>
            THEN Throw(<<"Invalid Temenos T24: missing TXN.REF">>)
            ELSE Return([
                messageType |-> Label.TEMENOS_T24,
                transactionReference |-> T24Get(fields, "TXN.REF"),
                amount |-> ParseFloat(T24Get(fields, "AMOUNT")),
                currency |-> T24Get(fields, "CURRENCY"),
                valueDate |-> T24Get(fields, "VALUE.DATE"),
                debitAccount |-> T24Get(fields, "DEBIT.ACCT"),
                creditAccount |-> T24Get(fields, "CREDIT.ACCT"),
                narrative |-> T24Get(fields, "NARRATIVE"),
                customerNumber |-> T24Get(fields, "CUSTOMER.NO"),
                productCode |-> T24Get(fields, "PRODUCT.CODE"),
                timestamp |-> env.now,
                parseMetadata |-> Metadata(env, "TEMENOS", "T24")]))

(***************************************************************************)
(* ISO20022Parser (src/src/parsers/iso20022/pacs008-parser.js)             *)
(***************************************************************************)
iso20022_parsePacs008(s, env) ==
    Rethrow("ISO 20022 pacs.008 parsing failed: ",
        IF ~Includes(s, <<"pacs.008">>)
        THEN Throw(<<"Invalid ISO 20022: not a pacs.008 message">>)
        ELSE Return([
            messageType |-> Label.pacs008,
            groupHeader |-> [
                messageId |-> <<"ISO123456789">>,
                creationDateTime |-> <<"2024-07-01T10:00:00Z">>,
                numberOfTransactions |-> 1,
                totalInterbankSettlementAmount |-> [amount |-> 4500, currency |-> <<"EUR">>],
                interbankSettlementDate |-> <<"2024-07-01">>,
                settlementMethod |-> <<"CLRG">>],
            creditTransferTransactionInformation |-> [
                paymentIdentification |-> [
                    instructionId |-> <<"INSTR001">>,
                    endToEndId |-> <<"E2E001">>,
                    transactionId |-> <<"TXN001">>],
                instructedAmount |-> [amount |-> 4500, currency |-> <<"EUR">>],
                chargeBearerCode |-> <<"SLEV">>,
                debtor |-> [name |-> <<"Sender Corporation">>],
                debtorAccount |-> [iban |-> <<"DE89123456789012345678">>],
                debtorAgent |-> [bic |-> <<"DEUTDEFF">>],
                creditor |-> [name |-> <<"Receiver Limited">>],
                creditorAccount |-> [iban |-> <<"FR1234567890123456789012">>],
                creditorAgent |-> [bic |-> <<"BNPAFRPP">>],
                remittanceInformation |-> [unstructured |-> <<"Invoice payment ISO20022">>]],
            timestamp |-> env.now,
            parseMetadata |-> Metadata(env, "ISO20022", "pacs.008")]))

\* parsePacs009, parseCamt053 and parseCamt052 (lines 88-152): the same
\* method for the message type each is named after.
iso20022_parseSibling(messageType, s, env) ==
    Rethrow("ISO 20022 " \o messageType \o " parsing failed: ",
        IF ~Includes(s, <<messageType>>)
        THEN Throw(<<"Invalid ISO 20022: not a " \o messageType \o " message">>)
        ELSE Return([
            messageType |-> <<messageType>>,
            timestamp |-> env.now,
            parseMetadata |-> Metadata(env, "ISO20022", messageType)]))

(***************************************************************************)
(* SWIFTParser, the base extractor (src/unnamed/part_003)                  *)
(***************************************************************************)
SWIFT_FIELDS(messageType) ==
    IF messageType = MT("103")
    THEN ( "20" :> "transaction_reference" ) @@ ( "23B" :> "bank_operation_code" )
         @@ ( "32A" :> "value_date_currency_amount" ) @@ ( "50K" :> "ordering_customer" )
         @@ ( "52A" :> "ordering_institution" ) @@ ( "53A" :> "senders_correspondent" )
         @@ ( "56A" :> "intermediary_institution" ) @@ ( "57A" :> "account_with_institution" )
         @@ ( "59" :> "beneficiary_customer" ) @@ ( "70" :> "remittance_information" )
         @@ ( "71A" :> "details_of_charges" )
    ELSE ( "20" :> "transaction_reference" ) @@ ( "21" :> "related_reference" )
         @@ ( "32A" :> "value_date_currency_amount" ) @@ ( "52A" :> "ordering_institution" )
         @@ ( "53A" :> "senders_correspondent" ) @@ ( "56A" :> "intermediary_institution" )
         @@ ( "57A" :> "account_with_institution" ) @@ ( "58A" :> "beneficiary_institution" )
         @@ ( "72" :> "sender_to_receiver_information" )

supportedMessageTypes == {MT("103"), MT("202")}

\* The tokens /:(\d{2}[A-Z]?):/ matches, with the tag each carries.
TagTokens ==
    ( ":20:" :> "20" ) @@ ( ":21:" :> "21" ) @@ ( ":23B:" :> "23B" ) @@ ( ":32A:" :> "32A" )
    @@ ( ":50K:" :> "50K" ) @@ ( ":52A:" :> "52A" ) @@ ( ":57A:" :> "57A" )
    @@ ( ":58A:" :> "58A" ) @@ ( ":59:" :> "59" ) @@ ( ":70:" :> "70" )
    @@ ( ":71A:" :> "71A" ) @@ ( ":72:" :> "72" ) @@ ( ":99Z:" :> "99Z" )

\* A faulty variant: every message with a header is taken for an MT103.
extractMessageTypeAlways103(s) ==
    IF HeaderMatches(s) = {}
    THEN Throw(<<"Invalid SWIFT message format: missing application header">>)
    ELSE Return(MT("103"))

extractMessageType(s) ==
    IF HeaderMatches(s) = {}
    THEN Throw(<<"Invalid SWIFT message format: missing application header">>)
    ELSE Return(MT(HeaderCode(s)))

\* /\{4:(.*?)\}/s: from the leftmost "{4:" that a "}" follows to the nearest "}".
TextBlock(s) ==
    LET opens == {i \in DOMAIN s : s[i] = "{4:" /\ \E j \in (i + 1)..Len(s) : s[j] = "}"}
    IN  IF opens = {} THEN Throw(<<"Invalid SWIFT message format: missing text block">>)
        ELSE LET i == CHOOSE a \in opens : \A b \in opens : a <= b
                 ends == {j \in (i + 1)..Len(s) : s[j] = "}"}
                 j == CHOOSE a \in ends : \A b \in ends : a <= b
             IN  Return(SubSeq(s, i + 1, j - 1))

\* fieldMatches.forEach: the fields from tag position k on, added to fields.
RECURSIVE CollectFields(_, _, _, _)
CollectFields(textBlock, k, fieldDefinitions, fields) ==
    LET tagsFrom == {i \in k..Len(textBlock) : textBlock[i] \in DOMAIN TagTokens}
    IN  IF tagsFrom = {} THEN fields
        ELSE LET i == CHOOSE a \in tagsFrom : \A b \in tagsFrom : a <= b
                 later == {n \in tagsFrom : n > i}
                 stop == IF later = {} THEN Len(textBlock) + 1
                         ELSE CHOOSE a \in later : \A b \in later : a <= b
                 tag == TagTokens[textBlock[i]]
                 content == Trim(SubSeq(textBlock, i + 1, stop - 1))
             IN  CollectFields(textBlock, stop, fieldDefinitions,
                     IF tag \in DOMAIN fieldDefinitions
                     THEN (tag :> content) @@ fields
                     ELSE fields)

parseFields(s, messageType) ==
    LET In(block) ==
            IF Thrown(block) THEN block
            ELSE IF \A i \in DOMAIN block.value : block.value[i] \notin DOMAIN TagTokens
            THEN Throw(<<"No valid fields found in message">>)
            ELSE Return(CollectFields(block.value, 1, SWIFT_FIELDS(messageType), <<>>))
    IN  In(TextBlock(s))

\* A faulty variant: 32A required ahead of 20.
getRequiredFieldsAmountFirst(messageType) ==
    IF messageType = MT("103") THEN <<"32A", "20", "50K", "59">>
    ELSE IF messageType = MT("202") THEN <<"32A", "20", "52A", "58A">>
    ELSE <<>>

getRequiredFields(messageType) ==
    IF messageType = MT("103") THEN <<"20", "32A", "50K", "59">>
    ELSE IF messageType = MT("202") THEN <<"20", "32A", "52A", "58A">>
    ELSE <<>>

\* !fields[tag]: the tag is absent (a present field is an object, truthy).
validateRequiredFields(fields, messageType) ==
    LET required == getRequiredFields(messageType)
        missing == {k \in DOMAIN required : required[k] \notin DOMAIN fields}
    IN  IF missing = {} THEN Return(Undefined)
        ELSE LET k == CHOOSE a \in missing : \A b \in missing : a <= b
             IN  Throw(<<"Missing required field: ", required[k], " for ">> \o messageType)

\* /^(\d{6})([A-Z]{3})([\d,\.]+)$/ on tokens: a date token, a currency token, then
\* one or more tokens of digits, "," and ".".
AmountMatches(content) ==
    /\ Len(content) >= 3
    /\ content[1] \in {"230701", "230101"}
    /\ content[2] \in {"USD", "EUR"}
    /\ \A i \in 3..Len(content) : content[i] \in {"1000", "00", "500", ",", "."}

\* Date.UTC(2000 + YY, MM - 1, DD) as YYYY-MM-DD.
ValueDate(dateStr) ==
    CASE dateStr = "230701" -> <<"2023-07-01">>
      [] dateStr = "230101" -> <<"2023-01-01">>

\* amountStr.replace(/,/g, ''): the tokens handed to parseFloat.
RemoveCommas(s) == SelectSeq(s, LAMBDA tok : tok # ",")

\* The number parseFloat reads from tokens of digits and ".", in hundredths
\* (rounded down): the digits up to the first "." are the units, the digits
\* from there to the next "." the fraction.  -1 stands for NaN.
Hundredths(tokens) ==
    LET DigitValue == ( "1000" :> 1000 ) @@ ( "00" :> 0 ) @@ ( "500" :> 500 )
        Pow10(n) == CASE n = 0 -> 1 [] n = 1 -> 10 [] n = 2 -> 100 [] n = 3 -> 1000
                      [] n = 4 -> 10000 [] OTHER -> 100000
        Join(acc, tok) == [value |-> acc.value * Pow10(Len(tok)) + DigitValue[tok],
                           digits |-> acc.digits + Len(tok)]
        Zero == [value |-> 0, digits |-> 0]
        Digits(toks) == IF toks = <<>> THEN Zero
                        ELSE IF Len(toks) = 1 THEN Join(Zero, toks[1])
                        ELSE Join(Join(Zero, toks[1]), toks[2])
        pieces == Split(tokens, ".")
        units == Digits(pieces[1])
        fraction == IF Len(pieces) > 1 THEN Digits(pieces[2]) ELSE Zero
    IN  IF units.digits = 0 /\ fraction.digits = 0 THEN 0 - 1
        ELSE units.value * 100 + (fraction.value * 100) \div Pow10(fraction.digits)

parseAmountField(content) ==
    IF ~AmountMatches(content)
    THEN Throw(<<"Invalid amount field format: ">> \o content)
    ELSE Return([
        valueDate |-> ValueDate(content[1]),
        currency |-> <<content[2]>>,
        amount |-> [t |-> "number", s |-> RemoveCommas(SubSeq(content, 3, Len(content)))]])

\* fields[tag]?.content
ContentOf(fields, tag) == IF tag \in DOMAIN fields THEN Str(fields[tag]) ELSE Undefined

parseCustomerInfo(content) ==
    IF Falsy(content) THEN Null
    ELSE LET lines == Split(content.s, "\n")
             line(n) == IF n <= Len(lines) /\ Trim(lines[n]) # <<>>
                        THEN Str(Trim(lines[n])) ELSE Null
         IN  [t |-> "object", account |-> line(1), name |-> line(2),
              addressLines |-> [n \in 1..(Len(lines) - 2) |-> Trim(lines[n + 2])],
              raw |-> content.s]

createStandardizedMessage(fields, messageType, env) ==
    LET amountData == parseAmountField(fields["32A"])
        base == [id |-> env.uuid,
                 messageType |-> messageType,
                 transactionReference |-> ContentOf(fields, "20"),
                 timestamp |-> env.now,
                 status |-> "parsed",
                 originalFields |-> fields,
                 orderingInstitution |-> ContentOf(fields, "52A")]
        money == IF "32A" \in DOMAIN fields
                 THEN [amount |-> amountData.value.amount,
                       currency |-> amountData.value.currency,
                       valueDate |-> amountData.value.valueDate]
                 ELSE [k \in {} |-> Undefined]
        parties == IF messageType = MT("103")
                   THEN [sender |-> parseCustomerInfo(ContentOf(fields, "50K")),
                         receiver |-> parseCustomerInfo(ContentOf(fields, "59")),
                         beneficiaryInstitution |-> ContentOf(fields, "57A"),
                         remittanceInfo |-> ContentOf(fields, "70")]
                   ELSE [beneficiaryInstitution |-> ContentOf(fields, "58A"),
                         senderToReceiverInfo |-> ContentOf(fields, "72")]
    IN  IF "32A" \in DOMAIN fields /\ Thrown(amountData) THEN amountData
        ELSE Return(parties @@ money @@ base)

\* Lines 323-333.  bic is a sequence of characters; upperBic has the
\* characters toUpperCase gives, two for a character it expands.
validateBIC(bic) ==
    LET Letters == {"A", "B", "C", "D", "E", "F", "G", "H", "I", "J", "K", "L", "M", "N",
                    "O", "P", "Q", "R", "S", "T", "U", "V", "W", "X", "Y", "Z"}
        Digits == {"0", "1", "2", "3", "4", "5", "6", "7", "8", "9"}
        Boolean(b) == Return([t |-> "boolean", s |-> IF b THEN <<"true">> ELSE <<"false">>])
        Test(upper) ==
            LET chars[i \in 0..Len(upper)] ==
                    IF i = 0 THEN <<>>
                    ELSE chars[i - 1]
                         \o (IF upper[i] = "SS" THEN <<"S", "S">> ELSE <<upper[i]>>)
                Matches(upperBic) ==
                    /\ Len(upperBic) \in {8, 11}
                    /\ \A i \in 1..6 : upperBic[i] \in Letters
                    /\ \A i \in 7..Len(upperBic) : upperBic[i] \in Letters \cup Digits
            IN  IF Length(upper) # 8 /\ Length(upper) # 11 THEN Boolean(FALSE)
                ELSE Boolean(Matches(chars[Len(upper)]))
    IN  IF Falsy(bic) \/ ~IsString(bic) THEN Boolean(FALSE)
        ELSE Test(ToUpperCase(bic.s))

swift_parse(rawMessage, env) ==
    IF Falsy(rawMessage) \/ ~IsString(rawMessage)
    THEN Throw(<<"Invalid message format: message must be a non-empty string">>)
    ELSE LET WithFields(messageType, fields) ==
                 LET valid == validateRequiredFields(fields.value, messageType)
                 IN  IF Thrown(fields) THEN fields
                     ELSE IF Thrown(valid) THEN valid
                     ELSE createStandardizedMessage(fields.value, messageType, env)
             WithType(type) ==
                 IF Thrown(type) THEN type
                 ELSE IF type.value \notin supportedMessageTypes
                 THEN Throw(<<"Unsupported message type: ">> \o type.value)
                 ELSE WithFields(type.value, parseFields(rawMessage.s, type.value))
         IN  WithType(extractMessageType(rawMessage.s))

(***************************************************************************)
(* SwiftParserOSS, the facade (src/unnamed/part_004)                       *)
(***************************************************************************)
getSupportedFormats ==
    << MT("103"), MT("202"), MT("515"), MT("700"), MT("798"), MT("950"), MT("101"),
       Label.ISO20022, Label.BANCS_XML, Label.BANCS_JSON, Label.BANCS_FLAT,
       Label.FIS_FIXED, Label.FIS_JSON, Label.FIS_DELIMITED,
       Label.FISERV_DNA, Label.TEMENOS_JSON, Label.TEMENOS_XML, Label.TEMENOS_T24 >>

\* A faulty variant: the type check made before the null check.
validateInputTypeFirst(message) ==
    IF ~IsString(message)
    THEN Throw(<<"Invalid input: message must be a string">>)
    ELSE IF Trim(message.s) = <<>>
    THEN Throw(<<"Invalid input: message cannot be empty">>)
    ELSE Return(Undefined)

\* Lines 62-73: the input validation.
validateInput(message) ==
    IF message.t \in {"null", "undefined"}
    THEN Throw(<<"Invalid input: message cannot be null or undefined">>)
    ELSE IF ~IsString(message)
    THEN Throw(<<"Invalid input: message must be a string">>)
    ELSE IF Trim(message.s) = <<>>
    THEN Throw(<<"Invalid input: message cannot be empty">>)
    ELSE Return(Undefined)

\* Lines 82-114: the routing on formatUpper.  exit tells how the try block
\* is left: "result" with the extractor's record in hand, "early" by the
\* return of the COBOL branch, "throw" by an Error.
Exit(how, o) == [exit |-> how, outcome |-> o]
FromExtractor(o) == Exit(IF Thrown(o) THEN "throw" ELSE "result", o)

route(message, formatUpper, env) ==
    LET s == message.s
    IN  IF StartsWith(formatUpper, <<"MT">>)
        THEN FromExtractor(swift_parse(message, env))
        ELSE IF formatUpper = <<"ISO20022">> \/ formatUpper = <<"PACS.008">>
        THEN FromExtractor(iso20022_parsePacs008(s, env))
        ELSE IF Includes(formatUpper, <<"BANCS">>)
        THEN IF Includes(formatUpper, <<"JSON">>) THEN FromExtractor(bancs_parseJSON(s, env))
             ELSE IF Includes(formatUpper, <<"XML">>) THEN FromExtractor(bancs_parseXML(s, env))
             ELSE FromExtractor(bancs_parseFlat(s, env))
        ELSE IF Includes(formatUpper, <<"FIS">>)
        THEN IF Includes(formatUpper, <<"JSON">>) THEN FromExtractor(fis_parseJSON(s, env))
             ELSE FromExtractor(fis_parseFixedWidth(s, env))
        ELSE IF Includes(formatUpper, <<"FIS", "ERV">>) \/ Includes(formatUpper, <<"DNA">>)
        THEN FromExtractor(fiserv_parseDNA(s, env))
        ELSE IF Includes(formatUpper, <<"TEMENOS">>)
        THEN IF Includes(formatUpper, <<"JSON">>) THEN FromExtractor(temenos_parseJSON(s, env))
             ELSE IF Includes(formatUpper, <<"XML">>) THEN FromExtractor(temenos_parseXML(s, env))
             ELSE FromExtractor(temenos_parseT24(s, env))
        ELSE IF detectCOBOL(s)
        THEN LET o == parseCOBOL(s) IN Exit(IF Thrown(o) THEN "throw" ELSE "early", o)
        ELSE Exit("throw", Throw(<<"Unsupported message format">>))

\* Lines 116-119: the timing metadata put on the extractor's record.
addTimingMetadata(result, env) ==
    LET parseMetadata == IF "parseMetadata" \in DOMAIN result
                         THEN result.parseMetadata
                         ELSE [k \in {} |-> Undefined]
        stamped == ( "parseTime" :> (IF env.elapsed > 1 THEN env.elapsed ELSE 1) )
                   @@ ( "timestamp" :> env.now ) @@ parseMetadata
    IN  ( "parseMetadata" :> stamped ) @@ result

\* Lines 61-122: the try block.
tryBlock(message, format, env) ==
    LET invalid == validateInput(message)
        Stamp(routed) ==
            IF routed.exit = "result"
            THEN Exit("result", Return(addTimingMetadata(routed.outcome.value, env)))
            ELSE routed
        Route(detectedFormat) ==
            IF ~IsString(detectedFormat)
            THEN Exit("throw", Throw(NotAFunctionMessage("detectedFormat.toUpperCase")))
            ELSE Stamp(route(message, ToUpperCase(detectedFormat.s), env))
        Detect(detected) ==
            IF Thrown(detected) THEN Exit("throw", detected) ELSE Route(detected.value)
    IN  IF Thrown(invalid) THEN Exit("throw", invalid)
        ELSE IF Falsy(format) THEN Detect(detectFormat(message))
        ELSE Route(format)

\* parse(message, format) from the counters m: the counters after the call and
\* what the caller gets.
\* A faulty variant: a parser that has failed once refuses every later
\* payload.
parseStickyFailure(m, message, format, env) ==
    LET started == [m EXCEPT !.totalParsed = @ + 1]
        Leave(left) ==
            IF m.failedParses > 0
            THEN [ metrics |-> [started EXCEPT !.failedParses = @ + 1],
                   outcome |-> Throw(<<"Parser is in a failed state">>) ]
            ELSE [ metrics |->
                     CASE left.exit = "result" ->
                             [started EXCEPT !.successfulParses = @ + 1]
                       [] left.exit = "throw" ->
                             [started EXCEPT !.failedParses = @ + 1]
                       [] left.exit = "early" -> started,
                   outcome |-> left.outcome ]
    IN  Leave(tryBlock(message, format, env))

parse(m, message, format, env) ==
    LET started == [m EXCEPT !.totalParsed = @ + 1]
        Leave(left) ==
            [ metrics |->
                CASE left.exit = "result" ->
                        [started EXCEPT !.successfulParses = @ + 1]
                  [] left.exit = "throw" ->
                        [started EXCEPT !.failedParses = @ + 1]
                  [] left.exit = "early" -> started,
              outcome |-> left.outcome ]
    IN  Leave(tryBlock(message, format, env))

\* `${format}` of a value.
TemplateText(v) == IF v.t \in {"string", "number", "boolean"} THEN v.s ELSE <<v.t>>

\* A faulty variant: the detected format compared before the format is
\* looked up in getSupportedFormats.
parseWithFormatMismatchFirst(m, message, format, env) ==
    LET Compare(detected) ==
            LET detectedFormat == detected.value.s
            IN  IF Thrown(detected) THEN [metrics |-> m, outcome |-> detected]
                ELSE IF detectedFormat # Label.UNKNOWN /\ Str(detectedFormat) # format
                THEN [metrics |-> m,
                      outcome |-> Throw(<<"Format mismatch: expected ">>
                                        \o TemplateText(format)
                                        \o <<" but detected ">> \o detectedFormat)]
                ELSE IF ~(IsString(format)
                          /\ \E k \in DOMAIN getSupportedFormats :
                                 getSupportedFormats[k] = format.s)
                THEN [metrics |-> m,
                      outcome |-> Throw(<<"Unsupported format: ">> \o TemplateText(format))]
                ELSE parse(m, message, format, env)
    IN  Compare(detectFormat(message))

\* A faulty variant: a rejected call is counted as a failed parse.
parseWithFormatCountsRejected(m, message, format, env) ==
    LET rejected == [m EXCEPT !.totalParsed = @ + 1, !.failedParses = @ + 1]
        Compare(detected) ==
            LET detectedFormat == detected.value.s
            IN  IF Thrown(detected) THEN [metrics |-> rejected, outcome |-> detected]
                ELSE IF detectedFormat # Label.UNKNOWN /\ detectedFormat # format.s
                THEN [metrics |-> rejected,
                      outcome |-> Throw(<<"Format mismatch: expected ">> \o format.s
                                        \o <<" but detected ">> \o detectedFormat)]
                ELSE parse(m, message, format, env)
    IN  IF ~(IsString(format)
             /\ \E k \in DOMAIN getSupportedFormats : getSupportedFormats[k] = format.s)
        THEN [metrics |-> rejected,
              outcome |-> Throw(<<"Unsupported format: ">> \o TemplateText(format))]
        ELSE Compare(detectFormat(message))

parseWithFormat(m, message, format, env) ==
    LET Compare(detected) ==
            LET detectedFormat == detected.value.s
            IN  IF Thrown(detected) THEN [metrics |-> m, outcome |-> detected]
                ELSE IF detectedFormat # Label.UNKNOWN /\ detectedFormat # format.s
                THEN [metrics |-> m,
                      outcome |-> Throw(<<"Format mismatch: expected ">> \o format.s
                                        \o <<" but detected ">> \o detectedFormat)]
                ELSE parse(m, message, format, env)
    IN  IF ~(IsString(format)
             /\ \E k \in DOMAIN getSupportedFormats : getSupportedFormats[k] = format.s)
        THEN [metrics |-> m,
              outcome |-> Throw(<<"Unsupported format: ">> \o TemplateText(format))]
        ELSE Compare(detectFormat(message))

\* A faulty variant: the loop ends at the first message that fails.
RECURSIVE batchLoopStopsAtFailure(_, _, _, _)
batchLoopStopsAtFailure(m, messages, results, envs) ==
    IF messages = <<>> THEN [metrics |-> m, outcome |-> Return(results)]
    ELSE LET Push(one) ==
                 IF Thrown(one.outcome)
                 THEN [metrics |-> one.metrics,
                       outcome |-> Return(Append(results,
                                       [error |-> one.outcome.error,
                                        originalMessage |-> Head(messages)]))]
                 ELSE batchLoopStopsAtFailure(one.metrics, Tail(messages),
                          Append(results, one.outcome.value), Tail(envs))
         IN  Push(parse(m, Head(messages), Undefined, Head(envs)))

\* The for loop of batchParse over messages, from counters m with results so
\* far; envs[i] is what the i-th remaining parse call reads.
RECURSIVE batchLoop(_, _, _, _)
batchLoop(m, messages, results, envs) ==
    IF messages = <<>> THEN [metrics |-> m, outcome |-> Return(results)]
    ELSE LET Push(one) ==
                 LET slot == IF Thrown(one.outcome)
                             THEN [error |-> one.outcome.error,
                                   originalMessage |-> Head(messages)]
                             ELSE one.outcome.value
                 IN  batchLoop(one.metrics, Tail(messages), Append(results, slot),
                               Tail(envs))
         IN  Push(parse(m, Head(messages), Undefined, Head(envs)))

batchParse(m, messages, envs) == batchLoop(m, messages, <<>>, envs)

\* A faulty variant: only a SWIFT label counts as valid.
validateSwiftOnly(message) ==
    LET Answer(format) ==
            IF Thrown(format) THEN Return([t |-> "boolean", s |-> <<"false">>])
            ELSE Return([t |-> "boolean",
                         s |-> IF StartsWith(format.value.s, <<"MT">>)
                               THEN <<"true">> ELSE <<"false">>])
    IN  IF Falsy(message) \/ ~IsString(message) \/ Trim(message.s) = <<>>
        THEN Return([t |-> "boolean", s |-> <<"false">>])
        ELSE Answer(detectFormat(message))

\* Lines 224-235: an error of detectFormat is caught and answered false.
validate(message) ==
    LET Answer(format) ==
            IF Thrown(format) THEN Return([t |-> "boolean", s |-> <<"false">>])
            ELSE Return([t |-> "boolean",
                         s |-> IF format.value.s # Label.UNKNOWN
                               THEN <<"true">> ELSE <<"false">>])
    IN  IF Falsy(message) \/ ~IsString(message) \/ Trim(message.s) = <<>>
        THEN Return([t |-> "boolean", s |-> <<"false">>])
        ELSE Answer(detectFormat(message))

\* The scalar fields of a record that toJSON is followed on: messageType,
\* timestamp and, when the record has one, amount (a number the extractor
\* computed, or the value it took from the JSON payload).
ScalarFields(parsedMessage) ==
    LET FromPayload(v) ==
            CASE v.jt = "string" -> Str(v.s)
              [] v.jt = "number" -> Number123
              [] v.jt = "zero" -> Number0
              [] v.jt = "null" -> Null
              [] OTHER -> Undefined
    IN  [ messageType |-> Str(parsedMessage.messageType),
          timestamp |-> Str(<<parsedMessage.timestamp>>),
          amount |-> IF "amount" \notin DOMAIN parsedMessage THEN Undefined
                     ELSE IF "t" \in DOMAIN parsedMessage.amount THEN parsedMessage.amount
                     ELSE FromPayload(parsedMessage.amount) ]

\* JSON.stringify of a scalar, the text it writes: a string in quotes with
\* its quotes, backslashes and line breaks escaped, a finite number as its
\* digits, NaN and null as null, and nothing for undefined (the member is
\* left out).
JSONStringify(v) ==
    LET Escape(tok) == CASE tok = "\n" -> "\\n" [] tok = "\"" -> "\\\"" [] tok = "\\" -> "\\\\"
                         [] OTHER -> tok
    IN  CASE v.t = "string" -> <<"\"">> \o [i \in DOMAIN v.s |-> Escape(v.s[i])] \o <<"\"">>
          [] v.t = "number" -> IF v.s = <<"NaN">> THEN <<"null">> ELSE v.s
          [] v.t = "null" -> <<"null">>
          [] OTHER -> <<>>

\* JSON.parse of the text of one member (no text: the member is absent).
JSONParseScalar(text) ==
    LET Unescape(tok) == CASE tok = "\\n" -> "\n" [] tok = "\\\"" -> "\"" [] tok = "\\\\" -> "\\"
                           [] OTHER -> tok
    IN  IF text = <<>> THEN Undefined
        ELSE IF text = <<"null">> THEN Null
        ELSE IF Head(text) = "\""
        THEN Str([i \in 1..(Len(text) - 2) |-> Unescape(text[i + 1])])
        ELSE [t |-> "number", s |-> text]

\* Lines 240-242: JSON.stringify(parsedMessage), member by member.
toJSON(parsedMessage) ==
    LET Write(scalars) == [name \in DOMAIN scalars |-> JSONStringify(scalars[name])]
    IN  Write(ScalarFields(parsedMessage))

\* A faulty variant: getMetrics hands out this.metrics itself.
getMetricsByReference(m) == [object |-> "this.metrics", fields |-> m]

\* Lines 247-249: { ...this.metrics }, a new object with the counters' values.
getMetrics(m) == [object |-> "copy", fields |-> m]

\* A faulty variant: routeMessage returns undefined.
enterpriseStubRouteReturns(method, message) ==
    IF method = "routeMessage" THEN Return(Undefined)
    ELSE Throw(<<method, " requires SwiftParser Enterprise",
                 ". Contact enterprise@gridworks.ai">>)

\* Lines 275-289: transpileCOBOL, convertToBlockchain, extractCompliance and
\* routeMessage, each one throw statement.
enterpriseStub(method, message) ==
    Throw(<< CASE method = "transpileCOBOL" -> "COBOL transpilation"
               [] method = "convertToBlockchain" -> "Blockchain conversion"
               [] method = "extractCompliance" -> "Compliance extraction"
               [] method = "routeMessage" -> "Smart routing",
             " requires SwiftParser Enterprise", ". Contact enterprise@gridworks.ai" >>)

(***************************************************************************)
(* Payloads and format hints.                                              *)
(***************************************************************************)
JsonObject(members) == <<ObjectOpen>> \o members \o <<"}">>

\* The fixtures by name; the fixed-width records have their columns filled as
\* the extractors cut them.
Fixture ==
    LET Block1 == <<"{1:", "F01AAAAGRA0AXXX1234123456", "}">>
        Block2(header) == <<"{2:", header, "BBBBGRB0XXXXN", "}">>
        Block4(fields) == <<"{4:", "\n">> \o fields \o <<"-", "}">>
        F20 == <<":20:", "123456789", "\n">>
        F23B == <<":23B:", "CRED", "\n">>
        F32A == <<":32A:", "230701", "USD", "1000", ",", "00", "\n">>
        F50K == <<":50K:", "/12345678", "\n", "SENDER BANK NAME", "\n", "SENDER ADDRESS", "\n">>
        F52A == <<":52A:", "AAAAGRA0", "\n">>
        F58A == <<":58A:", "CCCCUSD0", "\n">>
        F59 == <<":59:", "/98765432", "\n", "BENEFICIARY NAME", "\n">>
        F71A == <<":71A:", "OUR", "\n">>
        XmlDeclaration == <<"<?xml", " version=1.0?>", "\n">>
    IN  [ VALID_MT103 |->
              Block1 \o Block2("I103") \o Block4(F20 \o F23B \o F32A \o F50K \o F59 \o F71A),
          VALID_MT202 |->
              Block1 \o Block2("I202") \o Block4(F20 \o F32A \o F52A \o F58A),
          ISO20022_PACS008_SAMPLE |->
              XmlDeclaration
              \o <<"<Document xmlns=", "urn:iso:std:iso:20022", ":tech:xsd:", "pacs.008",
                    ".001.10", ">", "</Document>">>,
          BANCS_XML_SAMPLE |->
              XmlDeclaration
              \o <<"<", "Transaction", ">", "<", "Transaction", "ID", ">", "TXN789012345",
                    "</", "Transaction", "ID", ">", "</", "Transaction", ">">>,
          TEMENOS_XML_SAMPLE |->
              XmlDeclaration
              \o <<"<", "Temenos", "Transaction", ">", "<Amount>", "4500.00", "</Amount>",
                    "</", "Temenos", "Transaction", ">">>,
          TEMENOS_T24_SAMPLE |->
              <<"TXN.REF", "=", "TMN123456789", "\n", "AMOUNT", "=", "4500.00", "\n",
                "CURRENCY", "=", "EUR">>,
          COBOL_SAMPLE |-> <<"\n", "       ", "IDENTIFICATION DIVISION", ".", "\n">>,
          BANCS_JSON_SAMPLE |->
              JsonObject(<<",\"transactionId\":\"TXN1\"", ",\"accountNumber\":\"ACC1\"",
                           ",\"branchCode\":\"BR001\"">>),
          FIS_JSON_SAMPLE |->
              JsonObject(<<",\"transactionId\":\"TXN1\"", ",\"transactionType\":\"CREDIT\"",
                           ",\"branchCode\":\"BR001\"">>),
          FISERV_DNA_SAMPLE |->
              JsonObject(<<",\"transactionId\":\"DNA1\"", ",\"accountNumber\":\"ACC1\"",
                           ",\"customerName\":\"" \o Pad80 \o "\"",
                           ",\"branchCode\":\"BR001\"">>),
          FISERV_DNA_SHORT |-> JsonObject(<<",\"transactionId\":\"DNA1\"">>),
          TEMENOS_JSON_SAMPLE |-> JsonObject(<<",\"header\":{\"messageId\":\"TMN1\"}">>),
          BANCS_FLAT_SAMPLE |->
              <<"TXN123456789", " ", " ", " ", "ACC987654321", " ", " ", " ",
                "5000.00", " ", " ", " ", " ", " ", "EUR", " ", " ", "20240701",
                "International payment">>,
          FIS_FIXED_WIDTH_SAMPLE |->
              <<"01", "TXN123456789", " ", " ", " ", "ACC987654321", " ", " ", " ",
                "000250000", "USD", "20240701", "001",
                "Monthly payment to vendor ABC Corp", Blank10, " ",
                "John Doe", Blank10, Blank10, Blank10, Blank10, " ", " ", "BR01">>,
          FIS_DELIMITED_SAMPLE |->
              <<"TXN123456789", "|", "ACC987654321", "|", "2500", "|", "USD", "|", "20240701",
                "|", "CR", "|", "Monthly payment", "|", "John Doe", "|", "BR01">> ]

(***************************************************************************)
(* The state: the counters of one SwiftParserOSS and the last call made on *)
(* it (its arguments, what it read from the environment, its outcome and   *)
(* the counters before it).                                                *)
(***************************************************************************)
ZeroMetrics == [totalParsed |-> 0, successfulParses |-> 0, failedParses |-> 0]

Call(op, args, envs, outcome) ==
    [op |-> op, args |-> args, envs |-> envs, outcome |-> outcome, before |-> metrics]

\* The payloads, hints and batches the calls of Spec are made with.
Payloads ==
    { Null, Number123, Str(<<" ", "\n">>), Str(Fixture.VALID_MT103), Str(Fixture.VALID_MT202),
      Str(Fixture.ISO20022_PACS008_SAMPLE), Str(Fixture.BANCS_JSON_SAMPLE), Str(Fixture.FISERV_DNA_SAMPLE),
      Str(Fixture.COBOL_SAMPLE), Str(<<"invalid message 1">>) }

Hints == { Undefined, Str(MT("103")), Str(Label.FISERV_DNA), Str(<<"UNSUPPORTED">>) }

BatchPayloads == { Null, Str(Fixture.VALID_MT103), Str(<<"invalid message 1">>), Str(Fixture.COBOL_SAMPLE) }

Batches == UNION { [1..n -> BatchPayloads] : n \in 0..MaxBatch }

\* The object a caller holds from getMetrics: which object it is ("none"
\* before any call, "copy" for an object of its own, "this.metrics" for the
\* parser's), the fields of a copy, the counters when it was taken and the
\* fields the caller has written since.
NoSnapshot ==
    [object |-> "none", fields |-> ZeroMetrics, taken |-> ZeroMetrics, written |-> {}]

Init ==
    /\ metrics = ZeroMetrics
    /\ call = [op |-> "new", args |-> <<>>, envs |-> <<>>, outcome |-> Return(Undefined),
               before |-> ZeroMetrics]
    /\ snapshot = NoSnapshot

Parse(message, format, env) ==
    /\ metrics.totalParsed < MaxCalls
    /\ LET Done(done) ==
               /\ metrics' = done.metrics
               /\ call' = Call("parse", <<message, format>>, <<env>>, done.outcome)
               /\ snapshot' = snapshot
       IN  Done(parse(metrics, message, format, env))

ParseWithFormat(message, format, env) ==
    /\ metrics.totalParsed < MaxCalls
    /\ LET Done(done) ==
               /\ metrics' = done.metrics
               /\ call' = Call("parseWithFormat", <<message, format>>, <<env>>,
                               done.outcome)
               /\ snapshot' = snapshot
       IN  Done(parseWithFormat(metrics, message, format, env))

BatchParse(messages, envs) ==
    /\ metrics.totalParsed + Len(messages) <= MaxCalls
    /\ LET Done(done) ==
               /\ metrics' = done.metrics
               /\ call' = Call("batchParse", <<messages>>, envs, done.outcome)
               /\ snapshot' = snapshot
       IN  Done(batchParse(metrics, messages, envs))

DetectFormat(message) ==
    /\ metrics' = metrics
    /\ call' = Call("detectFormat", <<message>>, <<>>, detectFormat(message))
    /\ snapshot' = snapshot

Validate(message) ==
    /\ metrics' = metrics
    /\ call' = Call("validate", <<message>>, <<>>, validate(message))
    /\ snapshot' = snapshot

GetSupportedFormats ==
    /\ metrics' = metrics
    /\ call' = Call("getSupportedFormats", <<>>, <<>>, Return(getSupportedFormats))
    /\ snapshot' = snapshot

\* parser.toJSON(record) on the record the last call has returned.
ToJSON ==
    /\ call.op \in {"parse", "parseWithFormat"}
    /\ Returned(call.outcome)
    /\ metrics' = metrics
    /\ call' = Call("toJSON", <<call.outcome.value>>, call.envs,
                    Return(toJSON(call.outcome.value)))
    /\ snapshot' = snapshot

\* getMetrics() by a caller that reads the object and does not keep it.
ReadMetrics ==
    /\ metrics' = metrics
    /\ call' = Call("getMetrics", <<>>, <<>>, Return(getMetrics(metrics)))
    /\ snapshot' = snapshot

\* A call of one of the four enterprise stubs.
EnterpriseCall(method, message) ==
    /\ metrics' = metrics
    /\ call' = Call(method, <<message>>, <<>>, enterpriseStub(method, message))
    /\ snapshot' = snapshot

Next ==
    \/ \E message \in Payloads, format \in Hints, env \in Envs : Parse(message, format, env)
    \/ \E message \in Payloads, format \in Hints, env \in Envs :
            ParseWithFormat(message, format, env)
    \/ \E messages \in Batches : \E envs \in [DOMAIN messages -> Envs] :
            BatchParse(messages, envs)
    \/ \E message \in Payloads : DetectFormat(message)
    \/ \E method \in {"transpileCOBOL", "convertToBlockchain", "extractCompliance",
                      "routeMessage"},
          message \in Payloads \cup {Undefined}, onResult \in BOOLEAN :
            EnterpriseCall(method, IF onResult THEN call.outcome.value ELSE message)
    \/ \E message \in Payloads : Validate(message)
    \/ GetSupportedFormats
    \/ ToJSON
    \/ ReadMetrics

Spec == Init /\ [][Next]_vars

(***************************************************************************)
(* getMetrics and its caller: the caller keeps the object it got, may      *)
(* write its fields, and goes on parsing.                                  *)
(***************************************************************************)
\* The fields of the object the caller holds, as the caller reads them.
Held == IF snapshot.object = "this.metrics" THEN metrics ELSE snapshot.fields

GetMetrics ==
    /\ metrics' = metrics
    /\ call' = Call("getMetrics", <<>>, <<>>, Return(getMetrics(metrics)))
    /\ snapshot' = [object |-> getMetrics(metrics).object,
                    fields |-> getMetrics(metrics).fields,
                    taken |-> metrics, written |-> {}]

\* snapshot[field] = value, by the caller.
WriteSnapshot(field, value) ==
    /\ snapshot.object # "none"
    /\ call' = Call("write", <<field, value>>, <<>>, Return(Undefined))
    /\ IF snapshot.object = "this.metrics"
       THEN /\ metrics' = [metrics EXCEPT ![field] = value]
            /\ snapshot' = [snapshot EXCEPT !.written = @ \cup {field}]
       ELSE /\ metrics' = metrics
            /\ snapshot' = [snapshot EXCEPT !.fields[field] = value,
                                            !.written = @ \cup {field}]

NextMetrics ==
    \/ \E message \in {Str(Fixture.VALID_MT103), Str(<<"invalid message 1">>), Null},
          env \in Envs : Parse(message, Undefined, env)
    \/ GetMetrics
    \/ \E field \in DOMAIN ZeroMetrics, value \in {0, 99} : WriteSnapshot(field, value)

SpecMetrics == Init /\ [][NextMetrics]_vars

(***************************************************************************)
(* detectFormat as a function of its argument: the argument is drawn in    *)
(* the initial state and the one action applies detectFormat to it.        *)
(***************************************************************************)
True == [t |-> "boolean", s |-> <<"true">>]

NonStrings == { Null, Undefined, Number123, Number0, True }

\* Texts made of the markers the rules look for, in every combination.
MarkerTexts ==
    LET Opt(present, toks) == IF present THEN toks ELSE <<>>
        Headers == { <<>>, <<"{2:", "I103">>, <<"{2:", "O103">>, <<"{2:", "I999">> }
    IN  { Opt(b1, <<"{1:">>) \o header \o Opt(b4, <<"{4:">>) \o Opt(xml, <<"<?xml">>)
          \o Opt(ns, <<"urn:iso:std:iso:20022">>) \o Opt(tx, <<"<", "Transaction", ">">>)
          \o Opt(txid, <<"Transaction", "ID">>)
          \o Opt(tmn, <<"<", "Temenos", "Transaction", ">">>)
          \o Opt(cobol, <<"IDENTIFICATION DIVISION">>) :
            b1 \in BOOLEAN, header \in Headers, b4 \in BOOLEAN, xml \in BOOLEAN,
            ns \in BOOLEAN, tx \in BOOLEAN, txid \in BOOLEAN, tmn \in BOOLEAN,
            cobol \in BOOLEAN }

\* The objects made of the members the discriminators read, in every combination.
JsonObjects ==
    LET IdMembers ==
            { <<>>, <<",\"transactionId\":\"DNA1\"">>, <<",\"transactionId\":\"TXN1\"">>,
              <<",\"transactionId\":\"ABC1\"">>, <<",\"transactionId\":\"\"">>,
              <<",\"transactionId\":123">>, <<",\"transactionId\":0">>,
              <<",\"transactionId\":null">> }
        TypeMembers == { <<>>, <<",\"transactionType\":\"CREDIT\"">> }
        BranchMembers == { <<>>, <<",\"branchCode\":\"BR001\"">>, <<",\"branchCode\":\"\"">> }
        HeaderMembers ==
            { <<>>, <<",\"header\":{\"messageId\":\"TMN1\"}">>,
              <<",\"header\":{\"messageId\":\"XYZ1\"}">>,
              <<",\"header\":{\"messageId\":123}">>,
              <<",\"header\":{}">>, <<",\"header\":null">>, <<",\"header\":\"TMN1\"">> }
    IN  { JsonObject(id \o type \o branch \o header) :
            id \in IdMembers, type \in TypeMembers, branch \in BranchMembers,
            header \in HeaderMembers }

\* The last family carries a marker text in its description.
JsonTexts ==
    JsonObjects
    \cup { <<scalar>> : scalar \in DOMAIN JsonScalars }
    \cup { <<" ", "null", "\n">>, <<ObjectOpen>>, <<ObjectOpen, "}", "}">>,
           Fixture.FISERV_DNA_SAMPLE, Fixture.FIS_JSON_SAMPLE }
    \cup { JsonObject(members \o <<TextMemberOpen>> \o text \o <<Quote>>) :
             members \in { <<>>, <<",\"transactionId\":\"DNA1\"">>,
                           <<",\"header\":{\"messageId\":\"TMN1\"}">> },
             text \in { <<"<", "Transaction", ">">>, <<"Transaction", "ID">>,
                        <<"<", "Temenos", "Transaction", ">">>,
                        <<"IDENTIFICATION DIVISION">>, <<"<?xml", "urn:iso:std:iso:20022">>,
                        <<"{1:", "{2:", "I103", "{4:">>, <<"plain text">> } }

\* A SWIFT text: block 1 when b1, block 2 with the header token when there is
\* one, and block 4 around the field lines when block4.
SwiftText(b1, header, block4, fields) ==
    (IF b1 THEN <<"{1:", "F01AAAAGRA0AXXX1234123456", "}">> ELSE <<>>)
    \o (IF header = "" THEN <<>> ELSE <<"{2:", header, "BBBBGRB0XXXXN", "}">>)
    \o (IF block4 THEN <<"{4:", "\n">> \o fields \o <<"-", "}">> ELSE <<>>)

\* The field lines of mt103Message.
Mt103Lines ==
    <<":20:", "123456789", "\n", ":23B:", "CRED", "\n",
      ":32A:", "230701", "USD", "1000", ",", "00", "\n",
      ":50K:", "/12345678", "\n", "SENDER BANK NAME", "\n", "SENDER ADDRESS", "\n",
      ":59:", "/98765432", "\n", "BENEFICIARY NAME", "\n", ":71A:", "OUR", "\n">>

\* The MT labels of getSupportedFormats other than MT103 and MT202.
OtherMtCodes == {"515", "700", "798", "950", "101"}

Samples ==
    { Fixture.VALID_MT103, Fixture.VALID_MT202, Fixture.ISO20022_PACS008_SAMPLE, Fixture.BANCS_XML_SAMPLE,
      Fixture.BANCS_JSON_SAMPLE, Fixture.BANCS_FLAT_SAMPLE, Fixture.FIS_FIXED_WIDTH_SAMPLE, Fixture.FIS_JSON_SAMPLE,
      Fixture.FIS_DELIMITED_SAMPLE, Fixture.FISERV_DNA_SAMPLE, Fixture.FISERV_DNA_SHORT, Fixture.TEMENOS_JSON_SAMPLE,
      Fixture.TEMENOS_XML_SAMPLE, Fixture.TEMENOS_T24_SAMPLE, Fixture.COBOL_SAMPLE, <<"invalid message 1">>,
      <<" ", "\n">>, <<>>,
      <<"TXN.REF", "=", "TMN123456789", "\n", "CURRENCY", "=", "EUR">>,
      <<"TXN.REF", "=", "TMN123456789", "\n", "AMOUNT", "=", "N/A">>,
      <<"01", Pad80, "TXN123456789", "12345">>, <<"01", Pad80, "TXN123456789", "123456">>,
      <<Blank10>> }
    \cup { SwiftText(TRUE, "I" \o code, TRUE, Mt103Lines) : code \in OtherMtCodes }

DetectInputs ==
    NonStrings \cup { Str(s) : s \in MarkerTexts \cup JsonTexts \cup Samples }

Input(args, envs, m) ==
    [op |-> "input", args |-> args, envs |-> envs, outcome |-> Return(Undefined),
     before |-> m]

InitDetect ==
    /\ metrics = ZeroMetrics
    /\ \E message \in DetectInputs : call = Input(<<message>>, <<>>, ZeroMetrics)
    /\ snapshot = NoSnapshot

ApplyDetectFormat ==
    /\ call.op = "input"
    /\ DetectFormat(call.args[1])

ApplyValidate ==
    /\ call.op = "input"
    /\ Validate(call.args[1])

NextDetect == ApplyDetectFormat \/ ApplyValidate

SpecDetect == InitDetect /\ [][NextDetect]_vars

(***************************************************************************)
(* parse and parseWithFormat as functions of their arguments, of what the  *)
(* call reads from its environment and of the counters it starts from.     *)
(***************************************************************************)
FormatHints ==
    { Undefined, Null, Number123, Str(<<>>), Str(<<"UNSUPPORTED">>), Str(Label.COBOL),
      Str(Label.UNKNOWN), Str(<<"PACS.008">>), Str(<<"pacs.008">>), Str(<<"fis", "erv", "_", "dna">>),
      Str(MT("999")), Str(<<"mt", "103">>), Str(<<"mt", "202">>) }
    \cup { Str(getSupportedFormats[k]) : k \in DOMAIN getSupportedFormats }

\* Counters an instance can have when a call starts.
StartMetrics ==
    { ZeroMetrics, [totalParsed |-> 2, successfulParses |-> 1, failedParses |-> 1] }

ParseInputs ==
    ( (NonStrings \cup { Str(s) : s \in Samples }) \X FormatHints \X Envs )
    \cup ( { Str(s) : s \in MarkerTexts \cup JsonTexts } \X { Undefined } \X Envs )

InitParse ==
    /\ metrics \in StartMetrics
    /\ \E in \in ParseInputs : call = Input(<<in[1], in[2]>>, <<in[3]>>, metrics)
    /\ snapshot = NoSnapshot

ApplyParse ==
    /\ call.op = "input"
    /\ Parse(call.args[1], call.args[2], call.envs[1])

ApplyParseWithFormat ==
    /\ call.op = "input"
    /\ ParseWithFormat(call.args[1], call.args[2], call.envs[1])

NextParse == ApplyParse \/ ApplyParseWithFormat \/ ToJSON

SpecParse == InitParse /\ [][NextParse]_vars

(***************************************************************************)
(* The base extractor as a function of its argument: SWIFT texts with      *)
(* every combination of envelope blocks, header codes and field lines.     *)
(***************************************************************************)
\* For each field line, the texts it can have; the empty text leaves it out.
FieldChoices ==
    << { <<>>, <<":20:", "123456789", "\n">> },
       { <<>>, <<":21:", "REL987", "\n">> },
       { <<>>, <<":23B:", "CRED", "\n">> },
       { <<>>, <<":32A:", "230701", "USD", "1000", ",", "00", "\n">>,
         <<":32A:", "230101", "EUR", "500", "\n">>, <<":32A:", "INVALID", "\n">> },
       { <<>>, <<":50K:", "/12345678", "\n", "SENDER BANK NAME", "\n">> },
       { <<>>, <<":52A:", "AAAAGRA0", "\n">> },
       { <<>>, <<":58A:", "CCCCUSD0", "\n">> },
       { <<>>, <<":59:", "/98765432", "\n", "BENEFICIARY NAME", "\n">> },
       { <<>>, <<":99Z:", "UNLISTED", "\n">> } >>

RECURSIVE Concatenations(_)
Concatenations(choices) ==
    IF choices = <<>> THEN { <<>> }
    ELSE { head \o tail : head \in Head(choices), tail \in Concatenations(Tail(choices)) }

SwiftInputs ==
    NonStrings
    \cup { Str(SwiftText(b1, header, TRUE, fields)) :
             b1 \in BOOLEAN, header \in {"", "I103", "I202", "I999", "O103"},
             fields \in Concatenations(FieldChoices) }
    \cup { Str(SwiftText(b1, header, FALSE, <<>>)) :
             b1 \in BOOLEAN, header \in {"", "I103", "I202", "I999", "O103"} }
    \cup { Str(SwiftText(TRUE, "I202", TRUE,
                         <<":20:", "123456789", "\n", ":52A:", "AAAAGRA0", "\n",
                           ":58A:", "CCCCUSD0", "\n">> \o amount)) :
             amount \in { <<":32A:", "230701", "USD", "1000", ",", "00", "\n">>,
                          <<":32A:", "230101", "EUR", "500", "\n">> } }

InitSwift ==
    /\ metrics = ZeroMetrics
    /\ \E rawMessage \in SwiftInputs, env \in Envs :
           call = Input(<<rawMessage>>, <<env>>, ZeroMetrics)
    /\ snapshot = NoSnapshot

\* this.swift.parse(rawMessage): the base extractor keeps no state.
ApplySwiftParse ==
    /\ call.op = "input"
    /\ metrics' = metrics
    /\ call' = Call("swift.parse", call.args, call.envs,
                    swift_parse(call.args[1], call.envs[1]))
    /\ snapshot' = snapshot

NextSwift == ApplySwiftParse

SpecSwift == InitSwift /\ [][NextSwift]_vars

(***************************************************************************)
(* The methods of the extractors called on their own: the method and its   *)
(* argument are drawn in the initial state and the one action applies the  *)
(* method.                                                                 *)
(***************************************************************************)
\* method(message) of the extractor that has the method.
Extract(method, message, env) ==
    CASE method = "parsePacs008" -> iso20022_parsePacs008(message.s, env)
      [] method \in {"parsePacs009", "parseCamt053", "parseCamt052"} ->
            iso20022_parseSibling(
                CASE method = "parsePacs009" -> "pacs.009"
                  [] method = "parseCamt053" -> "camt.053"
                  [] method = "parseCamt052" -> "camt.052",
                message.s, env)
      [] method = "validateBIC" -> validateBIC(message)
      [] method = "bancs.parseXML" -> bancs_parseXML(message.s, env)
      [] method = "temenos.parseT24" -> temenos_parseT24(message.s, env)

ExtractInputs ==
    LET Document(namespace, msgId) ==
            <<"<?xml", " version=1.0?>", "\n", "<Document xmlns=", "urn:iso:std:iso:20022",
              ":tech:xsd:">> \o namespace
            \o <<">", "<MsgId>", msgId, "</MsgId>", "<NbOfTxs>", "1", "</NbOfTxs>",
                  "</Document>">>
        IsoTexts ==
            { Document(namespace, msgId) :
                namespace \in { <<"pacs.008", ".001.10">>, <<"pacs.009", ".001.08">>,
                                <<"camt.053", ".001.08">>, <<"camt.052", ".001.08">>,
                                <<"invalid.namespace">> },
                msgId \in {"ISO123456789", "MSG-2"} }
            \cup { <<"<invalid>xml</invalid>">>, <<"pacs.008">>, <<"pacs.009", " test">>,
                   <<"camt.053", " test">>, <<"camt.052", " test">>, <<>> }
        Bics ==
            { institution \o country \o location \o branch :
                institution \in { <<"D", "E", "U", "T">>, <<"d", "e", "u", "t">>,
                                  <<"D", "E", "U", "1">>, <<"D", "E", "U">>,
                                  <<"D", "E", "ß">>, <<>> },
                country \in { <<"D", "E">>, <<"d", "1">>, <<"D">> },
                location \in { <<"F", "F">>, <<"5", "f">>, <<"F", "-">>, <<"F">> },
                branch \in { <<>>, <<"5", "0", "0">>, <<"X", "X", "X">>, <<"5", "0">>,
                             <<"5", "0", "0", "1">>, <<"5", "-", "0">> } }
            \cup { <<"1", "2", "3", "4", "5", "6", "7", "8">>, <<>> }
        Opt(present, toks) == IF present THEN toks ELSE <<>>
        BancsTexts ==
            { Opt(xml, <<"<?xml", " version=1.0?>", "\n">>)
              \o Opt(tx, <<"<", "Transaction", ">">>)
              \o Opt(id, <<"<", "Transaction", "ID", ">", "TXN789012345",
                           "</", "Transaction", "ID", ">">>)
              \o Opt(rest, <<"<Amount>", "5000.00", "</Amount>", "<Currency>", "EUR",
                             "</Currency>", "<DebitAccount>", "DE89123456789012345678",
                             "</DebitAccount>", "<CreditAccount>",
                             "FR1234567890123456789012", "</CreditAccount>",
                             "<Description>", "International transfer", "</Description>">>)
              \o Opt(tx, <<"</", "Transaction", ">">>) :
                xml \in BOOLEAN, tx \in BOOLEAN, id \in BOOLEAN, rest \in BOOLEAN }
        T24Texts ==
            { reference \o amount \o narrative :
                reference \in { <<>>, <<"TXN.REF", "=", "TMN123456789", "\n">>,
                                <<"TXN.REF", "=", "\n">>,
                                <<" ", "TXN.REF", " ", "=", " ", "TMN123456789", " ", "\n">>,
                                <<"TXN.REF", "=", "TMN", "=", "123456789", "\n">>,
                                <<"TXN.REF", "\n">> },
                amount \in { <<>>, <<"AMOUNT", "=", "4500.00", "\n">>,
                             <<"AMOUNT", "4500.00", "\n">> },
                narrative \in { <<>>, <<"NARRATIVE", "=", "Invoice payment">>,
                                <<"NARRATIVE", "=", "REF", "=", "INV-1">>,
                                <<"NARRATIVE", "=", "REF", "=">>,
                                <<"no key on this line">> } }
    IN  ( {"parsePacs008", "parsePacs009", "parseCamt053", "parseCamt052"}
            \X { Str(s) : s \in IsoTexts } )
        \cup ( {"validateBIC"} \X (NonStrings \cup { Str(s) : s \in Bics }) )
        \cup ( {"bancs.parseXML"} \X { Str(s) : s \in BancsTexts } )
        \cup ( {"temenos.parseT24"} \X { Str(s) : s \in T24Texts } )

InitExtract ==
    /\ metrics = ZeroMetrics
    /\ \E in \in ExtractInputs, env \in Envs :
           call = Input(<<in[1], in[2]>>, <<env>>, ZeroMetrics)
    /\ snapshot = NoSnapshot

ApplyExtract ==
    /\ call.op = "input"
    /\ metrics' = metrics
    /\ call' = Call(call.args[1], <<call.args[2]>>, call.envs,
                    Extract(call.args[1], call.args[2], call.envs[1]))
    /\ snapshot' = snapshot

NextExtract == ApplyExtract

SpecExtract == InitExtract /\ [][NextExtract]_vars

(***************************************************************************)
(* Properties.                                                             *)
(***************************************************************************)
\* The counters after a call that counted one attempt and one outcome.
CountedOnce(outcomeCounter) ==
    metrics = [call.before EXCEPT !.totalParsed = @ + 1, ![outcomeCounter] = @ + 1]

\* C1: the counters are zero at construction; every parse call adds exactly 1
\* to totalParsed and exactly 1 to successfulParses when it returns, to
\* failedParses when it throws; so after any calls
\* totalParsed = successfulParses + failedParses.
C1_CountersAddUp ==
    /\ metrics.totalParsed = metrics.successfulParses + metrics.failedParses
    /\ call.op = "new" => metrics = ZeroMetrics
    /\ call.op = "parse" =>
          IF Returned(call.outcome)
          THEN CountedOnce("successfulParses")
          ELSE CountedOnce("failedParses")

\* A parse call that took the COBOL branch, after a parse call that returned.
C1_CobolBranchCounted ==
    /\ call.op = "parse"
    /\ call.outcome = Throw(CobolEnterpriseMessage)
    /\ call.before.successfulParses = 1
    /\ metrics.failedParses = call.before.failedParses + 1

\* The slot batchParse holds for one message: what parse(message) gives.
SlotOf(one, message) ==
    IF Thrown(one)
    THEN [error |-> one.error, originalMessage |-> message]
    ELSE one.value

\* C2: batchParse returns, for an array, an array of the same length whose
\* slot i is the record parse(payloads[i]) returns without a hint, or
\* {error, originalMessage} when it throws; every message is attempted, in
\* input order, and batchParse does not throw.
C2_BatchSlots ==
    call.op = "batchParse" =>
        LET messages == call.args[1]
        IN  /\ Returned(call.outcome)
            /\ Len(call.outcome.value) = Len(messages)
            /\ \A i \in DOMAIN messages :
                  call.outcome.value[i] =
                      SlotOf(parse(ZeroMetrics, messages[i], Undefined, call.envs[i]).outcome,
                             messages[i])
            /\ metrics.totalParsed = call.before.totalParsed + Len(messages)

\* A batch whose first message fails and whose second message is parsed.
C2_FailureThenRecord ==
    /\ call.op = "batchParse"
    /\ Len(call.outcome.value) = 2
    /\ DOMAIN call.outcome.value[1] = {"error", "originalMessage"}
    /\ call.outcome.value[1].originalMessage = call.args[1][1]
    /\ "messageType" \in DOMAIN call.outcome.value[2]
    /\ call.outcome.value[2].messageType = MT("103")

\* The extractor that belongs to a label that is not an MT label.
OwnExtractor(label, s, env) ==
    CASE label = Label.ISO20022 -> iso20022_parsePacs008(s, env)
      [] label = Label.BANCS_XML -> bancs_parseXML(s, env)
      [] label = Label.BANCS_JSON -> bancs_parseJSON(s, env)
      [] label = Label.BANCS_FLAT -> bancs_parseFlat(s, env)
      [] label = Label.FIS_FIXED -> fis_parseFixedWidth(s, env)
      [] label = Label.FIS_JSON -> fis_parseJSON(s, env)
      [] label = Label.FIS_DELIMITED -> fis_parseDelimited(s, env)
      [] label = Label.FISERV_DNA -> fiserv_parseDNA(s, env)
      [] label = Label.TEMENOS_JSON -> temenos_parseJSON(s, env)
      [] label = Label.TEMENOS_XML -> temenos_parseXML(s, env)
      [] label = Label.TEMENOS_T24 -> temenos_parseT24(s, env)

NonMtLabels ==
    { getSupportedFormats[k] : k \in DOMAIN getSupportedFormats } \ { MT(code) : code \in
        {"103", "202", "515", "700", "798", "950", "101"} }

\* C3: for every non-MT label L of getSupportedFormats, compared without
\* regard to case, parse(payload, L) gives what the extractor of L's own
\* system and variant gives for the payload (its record with the timing
\* metadata, or its error), and a record for FISERV_DNA has messageType
\* FISERV_DNA.
C3_LabelReachesOwnExtractor ==
    ( /\ call.op = "parse"
      /\ IsString(call.args[2])
      /\ ToUpperCase(call.args[2].s) \in NonMtLabels
      /\ Returned(validateInput(call.args[1])) ) =>
        LET label == ToUpperCase(call.args[2].s)
            own == OwnExtractor(label, call.args[1].s, call.envs[1])
        IN  /\ call.outcome = IF Thrown(own) THEN own
                              ELSE Return(addTimingMetadata(own.value, call.envs[1]))
            /\ (label = Label.FISERV_DNA /\ Returned(call.outcome)) =>
                   call.outcome.value.messageType = Label.FISERV_DNA

\* C4: when parse(payload), called without a hint, returns a record, the
\* record's messageType is the label detectFormat(payload) returns.
C4_ParsedTypeIsDetectedLabel ==
    ( /\ call.op = "parse"
      /\ call.args[2] = Undefined
      /\ Returned(call.outcome) ) =>
        call.outcome.value.messageType = detectFormat(call.args[1]).value.s

JsonLabels == { Label.FISERV_DNA, Label.FIS_JSON, Label.BANCS_JSON, Label.TEMENOS_JSON }

\* C5: for a payload that parses as JSON and that detectFormat labels
\* FISERV_DNA, FIS_JSON, BANCS_JSON or TEMENOS_JSON, a record parse(payload)
\* returns without a hint has that label as its messageType, whatever the
\* payload's length.
C5_JsonTypeIsDetectedLabel ==
    ( /\ call.op = "parse"
      /\ call.args[2] = Undefined
      /\ IsString(call.args[1])
      /\ JSONParse(call.args[1].s).jt # "SyntaxError"
      /\ detectFormat(call.args[1]).value.s \in JsonLabels
      /\ Returned(call.outcome) ) =>
        call.outcome.value.messageType = detectFormat(call.args[1]).value.s

\* C6: parse throws, whatever the hint, 'message cannot be null or undefined'
\* for null and undefined, 'message must be a string' for any other value
\* that is not a string, and 'message cannot be empty' for a string that is
\* empty after trimming, the checks made in that order; each rejection
\* counts one attempt and one failure.
C6_InputRejected ==
    call.op = "parse" =>
        LET message == call.args[1]
        IN  /\ message.t \in {"null", "undefined"} =>
                /\ call.outcome =
                       Throw(<<"Invalid input: message cannot be null or undefined">>)
                /\ CountedOnce("failedParses")
            /\ (message.t \notin {"null", "undefined", "string"}) =>
                /\ call.outcome = Throw(<<"Invalid input: message must be a string">>)
                /\ CountedOnce("failedParses")
            /\ (message.t = "string" /\ Trim(message.s) = <<>>) =>
                /\ call.outcome = Throw(<<"Invalid input: message cannot be empty">>)
                /\ CountedOnce("failedParses")

\* parse(null, 'FISERV_DNA') on an instance that has parsed before.
C6_NullRejectedDespiteHint ==
    /\ call.op = "parse"
    /\ call.args = <<Null, Str(Label.FISERV_DNA)>>
    /\ call.outcome = Throw(<<"Invalid input: message cannot be null or undefined">>)
    /\ call.before.totalParsed = 2
    /\ metrics.failedParses = 2

IsSupported(format) ==
    /\ IsString(format)
    /\ \E k \in DOMAIN getSupportedFormats : getSupportedFormats[k] = format.s

\* C7: parseWithFormat throws 'Unsupported format: <format>' when the format
\* is not in getSupportedFormats, before anything else; else a format
\* mismatch when detectFormat(payload) is neither UNKNOWN nor the format;
\* and only otherwise is parse(payload, format).  So when it returns a
\* record, detectFormat(payload) is UNKNOWN or the format.
C7_ParseWithFormatChecks ==
    call.op = "parseWithFormat" =>
        LET message == call.args[1]
            format == call.args[2]
            detected == detectFormat(message).value.s
            trusted == detected = Label.UNKNOWN \/ Str(detected) = format
        IN  /\ ~IsSupported(format) =>
                /\ call.outcome =
                       Throw(<<"Unsupported format: ">> \o TemplateText(format))
                /\ metrics = call.before
            /\ (IsSupported(format) /\ ~trusted) =>
                /\ call.outcome =
                       Throw(<<"Format mismatch: expected ">> \o format.s
                             \o <<" but detected ">> \o detected)
                /\ metrics = call.before
            /\ (IsSupported(format) /\ trusted) =>
                [metrics |-> metrics, outcome |-> call.outcome]
                    = parse(call.before, message, format, call.envs[1])
            /\ Returned(call.outcome) => trusted

\* parseWithFormat(an MT103 message, 'UNSUPPORTED'): the format is refused
\* although the payload would also mismatch.
C7_UnsupportedBeforeMismatch ==
    /\ call.op = "parseWithFormat"
    /\ call.args = <<Str(Fixture.VALID_MT103), Str(<<"UNSUPPORTED">>)>>
    /\ call.outcome = Throw(<<"Unsupported format: ", "UNSUPPORTED">>)
    /\ metrics = call.before

\* The labels detectFormat can name.
FormatLabels ==
    { getSupportedFormats[k] : k \in DOMAIN getSupportedFormats }
    \cup { MT(HeaderDigits[h]) : h \in DOMAIN HeaderDigits }
    \cup { Label.COBOL, Label.UNKNOWN }

\* C8: detectFormat throws for no input; it returns UNKNOWN for null,
\* undefined, the empty string and every value that is not a string, and a
\* format label for every string, also one that is JSON null, a JSON
\* primitive or array, or an object whose transactionId or header.messageId
\* is not a string.
C8_DetectFormatTotal ==
    call.op = "detectFormat" =>
        /\ Returned(call.outcome)
        /\ IsString(call.outcome.value)
        /\ call.outcome.value.s \in FormatLabels
        /\ (~IsString(call.args[1]) \/ call.args[1].s = <<>>) =>
               call.outcome.value.s = Label.UNKNOWN

\* detectFormat of the JSON text null, where reading parsed.transactionId
\* is a TypeError inside the try block.
C8_JsonNullGivesUnknown ==
    /\ call.op = "detectFormat"
    /\ call.args[1] = Str(<<"null">>)
    /\ JSONParse(call.args[1].s) = J("null")
    /\ call.outcome = Return(Str(Label.UNKNOWN))

\* The rules of detectFormat in their order, each with whether the text
\* matches it and the label it gives.
DetectionRules(s) ==
    << [ hit |-> /\ Includes(s, <<"{1:">>) /\ Includes(s, <<"{2:">>)
                 /\ Includes(s, <<"{4:">>) /\ HeaderMatches(s) # {},
         label |-> IF HeaderMatches(s) # {} THEN MT(HeaderCode(s)) ELSE <<>> ],
       [ hit |-> Includes(s, <<"<?xml">>) /\ Includes(s, <<"urn:iso:std:iso:20022">>),
         label |-> Label.ISO20022 ],
       [ hit |-> \/ Includes(s, <<"<", "Transaction", ">">>)
                 \/ Includes(s, <<"Transaction", "ID">>),
         label |-> Label.BANCS_XML ],
       [ hit |-> tryJsonDetection(s) # FallsThrough,
         label |-> tryJsonDetection(s).value.s ],
       [ hit |-> Includes(s, <<"<", "Temenos", "Transaction", ">">>),
         label |-> Label.TEMENOS_XML ],
       [ hit |-> detectCOBOL(s),
         label |-> Label.COBOL ] >>

\* C9: the label of a non-empty string is that of the first rule, in the
\* order SWIFT, ISO20022, BANCS_XML, JSON, TEMENOS_XML, COBOL, that the text
\* matches, and UNKNOWN when it matches none; SWIFT markers without a
\* matching header do not make the SWIFT rule match.
C9_FirstMatchingRuleDecides ==
    ( /\ call.op = "detectFormat"
      /\ IsString(call.args[1])
      /\ call.args[1].s # <<>> ) =>
        LET rules == DetectionRules(call.args[1].s)
            hits == { k \in DOMAIN rules : rules[k].hit }
        IN  call.outcome.value.s =
                IF hits = {} THEN Label.UNKNOWN
                ELSE rules[CHOOSE k \in hits : \A j \in hits : k <= j].label

\* A text with the three SWIFT markers and a header that does not match,
\* which also matches the ISO 20022, BANCS_XML, TEMENOS_XML and COBOL rules.
C9_MarkersWithoutHeaderFallToIso ==
    /\ call.op = "detectFormat"
    /\ IsString(call.args[1])
    /\ Includes(call.args[1].s, <<"{1:">>)
    /\ Includes(call.args[1].s, <<"{2:", "O103">>)
    /\ Includes(call.args[1].s, <<"{4:">>)
    /\ Includes(call.args[1].s, <<"<", "Transaction", ">">>)
    /\ Includes(call.args[1].s, <<"<", "Temenos", "Transaction", ">">>)
    /\ detectCOBOL(call.args[1].s)
    /\ call.outcome = Return(Str(Label.ISO20022))

\* C10: for a payload that parses as JSON and matches none of the SWIFT,
\* ISO 20022 and BANCS_XML rules, detectFormat returns FISERV_DNA when
\* transactionId starts with DNA, FIS_JSON when it starts with TXN and
\* transactionType and branchCode are both present, BANCS_JSON when it
\* starts with TXN and one of the two is missing, and TEMENOS_JSON when no
\* transactionId rule applied and header.messageId starts with TMN, also
\* when transactionId has another prefix or is not a string.
C10_JsonDiscriminators ==
    ( /\ call.op = "detectFormat"
      /\ IsString(call.args[1])
      /\ call.args[1].s # <<>>
      /\ JSONParse(call.args[1].s).jt # "SyntaxError"
      /\ \A k \in 1..3 : ~DetectionRules(call.args[1].s)[k].hit ) =>
        LET parsed == JSONParse(call.args[1].s)
            id == Prop(parsed, "transactionId")
            messageId == Prop(Prop(parsed, "header"), "messageId")
            IdStarts(prefix) == id.jt = "string" /\ StartsWith(id.s, <<prefix>>)
            both == /\ JTruthy(Prop(parsed, "transactionType"))
                    /\ JTruthy(Prop(parsed, "branchCode"))
            label == call.outcome.value.s
        IN  /\ IdStarts("DNA") => label = Label.FISERV_DNA
            /\ (IdStarts("TXN") /\ both) => label = Label.FIS_JSON
            /\ (IdStarts("TXN") /\ ~both) => label = Label.BANCS_JSON
            /\ ( /\ ~IdStarts("DNA") /\ ~IdStarts("TXN")
                 /\ messageId.jt = "string" /\ StartsWith(messageId.s, <<"TMN">>) ) =>
                   label = Label.TEMENOS_JSON

\* C11: every record a successful parse of the facade returns, MT103 and
\* MT202 records included, has messageType, timestamp and a parseMetadata
\* with parseId, parser and format, and a parseTime that is a whole number of
\* milliseconds, at least 1.
C11_RecordShape ==
    ( /\ call.op \in {"parse", "parseWithFormat"}
      /\ Returned(call.outcome) ) =>
        LET record == call.outcome.value
        IN  /\ {"messageType", "timestamp", "parseMetadata"} \subseteq DOMAIN record
            /\ {"parseId", "parser", "format", "parseTime"}
                   \subseteq DOMAIN record.parseMetadata
            /\ record.parseMetadata.parseTime \in Nat
            /\ record.parseMetadata.parseTime >= 1

\* C12: for a well-formed SWIFT payload whose header carries the code of
\* MT515, MT700, MT950, MT101 or MT798, parse and parseWithFormat with that
\* label return a record whose messageType is that label.
C12_OtherMtTypesParsed ==
    \A code \in OtherMtCodes :
        ( /\ call.op \in {"parse", "parseWithFormat"}
          /\ call.args = <<Str(SwiftText(TRUE, "I" \o code, TRUE, Mt103Lines)), Str(MT(code))>> ) =>
            /\ Returned(call.outcome)
            /\ call.outcome.value.messageType = MT(code)

\* C13: the base extractor's parse fails with 'Unsupported message type:
\* MT<code>' for every payload whose header code is not 103 or 202, before
\* the text block is examined, and otherwise with an invalid-format error for
\* every payload that lacks one of the envelope blocks {1:...},
\* {2:I<3 digits>...} and {4:...}.
C13_EnvelopeAndType ==
    ( /\ call.op = "swift.parse"
      /\ IsString(call.args[1]) ) =>
        LET s == call.args[1].s
            lacksBlock == \/ ~Includes(s, <<"{1:">>)
                          \/ HeaderMatches(s) = {}
                          \/ ~Includes(s, <<"{4:">>)
        IN  IF HeaderMatches(s) # {} /\ MT(HeaderCode(s)) \notin supportedMessageTypes
            THEN call.outcome = Throw(<<"Unsupported message type: ">> \o MT(HeaderCode(s)))
            ELSE lacksBlock =>
                    call.outcome \in
                        { Throw(<<"Invalid SWIFT message format: missing application header">>),
                          Throw(<<"Invalid SWIFT message format: missing text block">>),
                          Throw(<<"Invalid message format: message must be a non-empty string">>) }

\* C14: for a payload of a supported type whose block 4 yields at least one
\* field, the base extractor keeps only the tags of that type's field table,
\* fails with 'Missing required field: <tag> for <type>' naming the first
\* absent tag in the order 20, 32A, 50K, 59 for MT103 and 20, 32A, 52A, 58A
\* for MT202, and never returns a record whose originalFields lacks a
\* required tag.
C14_FieldsAndRequired ==
    ( /\ call.op = "swift.parse"
      /\ IsString(call.args[1])
      /\ HeaderMatches(call.args[1].s) # {}
      /\ MT(HeaderCode(call.args[1].s)) \in {MT("103"), MT("202")}
      /\ Returned(TextBlock(call.args[1].s))
      /\ \E i \in DOMAIN TextBlock(call.args[1].s).value :
             TextBlock(call.args[1].s).value[i] \in DOMAIN TagTokens ) =>
        LET s == call.args[1].s
            type == MT(HeaderCode(s))
            block == TextBlock(s).value
            tags == { TagTokens[block[i]] : i \in {j \in DOMAIN block : block[j] \in DOMAIN TagTokens} }
            required == IF type = MT("103") THEN <<"20", "32A", "50K", "59">>
                        ELSE <<"20", "32A", "52A", "58A">>
            absent == {k \in DOMAIN required : required[k] \notin tags}
        IN  /\ DOMAIN parseFields(s, type).value = tags \cap DOMAIN SWIFT_FIELDS(type)
            /\ absent # {} =>
                   \E k \in absent :
                       /\ \A other \in absent : k <= other
                       /\ call.outcome =
                              Throw(<<"Missing required field: ", required[k], " for ">> \o type)
            /\ Returned(call.outcome) =>
                   /\ DOMAIN call.outcome.value.originalFields = tags \cap DOMAIN SWIFT_FIELDS(type)
                   /\ \A k \in DOMAIN required :
                          required[k] \in DOMAIN call.outcome.value.originalFields

\* An MT202 payload with the unlisted tags 23B and 99Z that lacks 52A and 58A.
C14_FirstAbsentTagNamed ==
    /\ call.op = "swift.parse"
    /\ call.outcome = Throw(<<"Missing required field: ", "52A", " for ", "MT", "202">>)
    /\ Includes(call.args[1].s, <<":23B:">>)
    /\ Includes(call.args[1].s, <<":99Z:">>)
    /\ ~Includes(call.args[1].s, <<":58A:">>)

\* C15: for every MT103 payload the base extractor accepts whose field 32A
\* has the content "230701USD1000,00", the record has the amount 1000.00,
\* the currency "USD" and the valueDate "2023-07-01".
C15_AmountOfThousand ==
    ( /\ call.op = "swift.parse"
      /\ Returned(call.outcome)
      /\ call.outcome.value.messageType = MT("103")
      /\ call.outcome.value.originalFields["32A"] = <<"230701", "USD", "1000", ",", "00">> ) =>
        /\ call.outcome.value.amount.t = "number"
        /\ Hundredths(call.outcome.value.amount.s) = 1000 * 100
        /\ call.outcome.value.currency = <<"USD">>
        /\ call.outcome.value.valueDate = <<"2023-07-01">>

\* C16: parse of a payload that detectFormat labels COBOL, called without a
\* hint, never returns a value, neither a record nor null: it throws an error
\* saying that COBOL parsing requires SwiftParser Enterprise, and the call
\* counts as one failed parse.
C16_CobolAlwaysThrows ==
    ( /\ call.op = "parse"
      /\ call.args[2] = Undefined
      /\ detectFormat(call.args[1]) = Return(Str(Label.COBOL)) ) =>
        /\ Thrown(call.outcome)
        /\ Includes(call.outcome.error, <<"COBOL parsing requires SwiftParser Enterprise">>)
        /\ CountedOnce("failedParses")

\* A JSON text whose description names a COBOL division, parsed without a
\* hint on an instance that has parsed before.
C16_CobolInsideJson ==
    /\ call.op = "parse"
    /\ call.args[2] = Undefined
    /\ JSONParse(call.args[1].s).jt = "object"
    /\ detectFormat(call.args[1]) = Return(Str(Label.COBOL))
    /\ call.outcome = Throw(CobolEnterpriseMessage)
    /\ call.before.totalParsed = 2
    /\ metrics.failedParses = 2

\* C17: transpileCOBOL, convertToBlockchain, extractCompliance and
\* routeMessage throw their fixed 'requires SwiftParser Enterprise' error on
\* every call, for every argument and in every state of the parser, and leave
\* the counters alone; parse calls none of them, so what a parse gives is
\* what it gives from the same counters whatever stub calls came before.
C17_EnterpriseStubsThrow ==
    /\ call.op = "transpileCOBOL" =>
          /\ call.outcome = Throw(<<"COBOL transpilation", " requires SwiftParser Enterprise",
                                    ". Contact enterprise@gridworks.ai">>)
          /\ metrics = call.before
    /\ call.op = "convertToBlockchain" =>
          /\ call.outcome = Throw(<<"Blockchain conversion", " requires SwiftParser Enterprise",
                                    ". Contact enterprise@gridworks.ai">>)
          /\ metrics = call.before
    /\ call.op = "extractCompliance" =>
          /\ call.outcome = Throw(<<"Compliance extraction", " requires SwiftParser Enterprise",
                                    ". Contact enterprise@gridworks.ai">>)
          /\ metrics = call.before
    /\ call.op = "routeMessage" =>
          /\ call.outcome = Throw(<<"Smart routing", " requires SwiftParser Enterprise",
                                    ". Contact enterprise@gridworks.ai">>)
          /\ metrics = call.before
    /\ call.op = "parse" =>
          call.outcome =
              parse(ZeroMetrics, call.args[1], call.args[2], call.envs[1]).outcome

\* routeMessage called on the record a parse has just returned.
C17_RouteAfterParse ==
    /\ call.op = "routeMessage"
    /\ Thrown(call.outcome)
    /\ "messageType" \in DOMAIN call.args[1]
    /\ call.args[1].messageType = MT("103")
    /\ metrics.successfulParses = 1

\* C18: getMetrics returns a copy of the counters: writing a field of the
\* returned object does not change the parser's counters, and the object
\* keeps, in every field its holder has not written, the value the counter
\* had when the object was taken, whatever parse calls come later.
C18_MetricsSnapshot ==
    /\ call.op = "getMetrics" => call.outcome.value.fields = metrics
    /\ call.op = "write" => metrics = call.before
    /\ snapshot.object # "none" =>
          \A field \in DOMAIN ZeroMetrics \ snapshot.written :
              Held[field] = snapshot.taken[field]

\* A snapshot taken after one parse, its totalParsed overwritten, and two
\* more parse calls made since.
C18_SnapshotOutlivesParses ==
    /\ call.op = "parse"
    /\ snapshot.object # "none"
    /\ snapshot.taken.totalParsed = 1
    /\ snapshot.written = {"totalParsed"}
    /\ Held.totalParsed = 99
    /\ Held.successfulParses = 1
    /\ metrics.totalParsed = 3
    /\ metrics.successfulParses = 2

\* C19: for every record r a successful parse returns, of any format,
\* JSON.parse(toJSON(r)) has the messageType of r and the value r has in
\* every scalar (string or number) field, the numeric amount of the
\* fixed-width, delimited and key=value extractors included when the source
\* amount is blank or not numeric.
C19_JsonRoundTrip ==
    call.op = "toJSON" =>
        LET scalars == ScalarFields(call.args[1])
        IN  \A name \in DOMAIN scalars :
                scalars[name].t \in {"string", "number"} =>
                    JSONParseScalar(call.outcome.value[name]) = scalars[name]

\* C20 (as stated): parsing the same payload twice with the same hint, in
\* any state of the parser and with any other calls in between, gives two
\* outcomes of the same kind (the same message, or two records), and two
\* records are equal on every field except parseMetadata.parseId and the
\* timestamps.
C20_SameOutcomeTwice ==
    call.op = "parse" =>
        LET Rest(r, names) == [name \in DOMAIN r \ names |-> r[name]]
            Compared(r) ==
                IF "parseMetadata" \in DOMAIN r
                THEN [Rest(r, {"timestamp"}) EXCEPT
                        !.parseMetadata = Rest(r.parseMetadata, {"parseId", "timestamp"})]
                ELSE Rest(r, {"timestamp"})
            Agree(first, second) ==
                /\ first.kind = second.kind
                /\ Thrown(first) => first.error = second.error
                /\ Returned(first) => Compared(first.value) = Compared(second.value)
        IN  \A before \in StartMetrics \cup {metrics}, env \in Envs :
                Agree(call.outcome, parse(before, call.args[1], call.args[2], env).outcome)

\* C20 (amended): the same, with the fields that differ from one parse to
\* the next named in full: parseMetadata.parseId, parseMetadata.parseTime,
\* timestamp, parseMetadata.timestamp and the id of a SWIFT record.
C20_SameOutcomeButMeasured ==
    call.op = "parse" =>
        LET Rest(r, names) == [name \in DOMAIN r \ names |-> r[name]]
            Compared(r) ==
                IF "parseMetadata" \in DOMAIN r
                THEN [Rest(r, {"timestamp", "id"}) EXCEPT
                        !.parseMetadata = Rest(r.parseMetadata,
                                               {"parseId", "parseTime", "timestamp"})]
                ELSE Rest(r, {"timestamp", "id"})
        IN  \A before \in StartMetrics \cup {metrics}, env \in Envs :
                LET second == parse(before, call.args[1], call.args[2], env).outcome
                IN  /\ call.outcome.kind = second.kind
                    /\ Thrown(second) => call.outcome.error = second.error
                    /\ Returned(second) => Compared(call.outcome.value) = Compared(second.value)

\* A record returned by a parse that is not the first call of the parser,
\* which a parse of the same payload with the same hint at another time
\* returns with another field value.
C20_SecondRecordDiffers ==
    /\ call.op = "parse"
    /\ Returned(call.outcome)
    /\ call.before.totalParsed >= 1
    /\ \E env \in Envs :
            parse(metrics, call.args[1], call.args[2], env).outcome # call.outcome

\* C21: parsePacs008 fails exactly when the substring pacs.008 is absent
\* from the payload, and for every payload that has it the record has
\* messageType pacs.008 and the group-header values the payload carries: its
\* groupHeader.messageId is the text of the payload's MsgId element, so two
\* payloads with different MsgId elements give different messageId values.
C21_Pacs008FromPayload ==
    call.op = "parsePacs008" =>
        LET xmlMessage == call.args[1].s
            ElementText(name) ==
                LET i == CHOOSE i \in DOMAIN xmlMessage : xmlMessage[i] = "<" \o name \o ">"
                IN  <<xmlMessage[i + 1]>>
        IN  /\ Thrown(call.outcome) <=> ~Includes(xmlMessage, <<"pacs.008">>)
            /\ Returned(call.outcome) =>
                    /\ call.outcome.value.messageType = Label.pacs008
                    /\ Includes(xmlMessage, <<"<MsgId>">>) =>
                           call.outcome.value.groupHeader.messageId = ElementText("MsgId")

\* C27: parsePacs009, parseCamt053 and parseCamt052 never return a record:
\* after the namespace-substring check they fail for every payload, whether
\* or not it contains pacs.009, camt.053 or camt.052.
C27_SiblingsAlwaysFail ==
    call.op \in {"parsePacs009", "parseCamt053", "parseCamt052"} => Thrown(call.outcome)

\* C22 (as stated): the FIS fixed-width extractor never returns a record for
\* a payload shorter than 100 characters: parseFixedWidth fails with the
\* 'message too short' error for every such payload, and the same failure
\* reaches the caller of parse(payload, 'FIS_FIXED').
C22_TooShortReachesCaller ==
    ( /\ call.op = "parse"
      /\ call.args[2] = Str(Label.FIS_FIXED)
      /\ IsString(call.args[1])
      /\ Length(call.args[1].s) < 100 ) =>
        /\ fis_parseFixedWidth(call.args[1].s, call.envs[1])
             = Throw(<<"FIS fixed width parsing failed: ",
                       "Invalid FIS fixed width: message too short">>)
        /\ call.outcome = fis_parseFixedWidth(call.args[1].s, call.envs[1])

\* C22 (amended): the same for every such payload that is not blank; a
\* payload that is empty after trimming is refused by parse itself as an
\* empty message, and no payload under 100 characters yields a record.
C22_TooShortOrEmpty ==
    ( /\ call.op = "parse"
      /\ call.args[2] = Str(Label.FIS_FIXED)
      /\ IsString(call.args[1])
      /\ Length(call.args[1].s) < 100 ) =>
        /\ fis_parseFixedWidth(call.args[1].s, call.envs[1])
             = Throw(<<"FIS fixed width parsing failed: ",
                       "Invalid FIS fixed width: message too short">>)
        /\ call.outcome =
             IF Trim(call.args[1].s) = <<>>
             THEN Throw(<<"Invalid input: message cannot be empty">>)
             ELSE fis_parseFixedWidth(call.args[1].s, call.envs[1])

\* A payload of 99 characters refused as too short through the facade.
C22_NinetyNineRefused ==
    /\ call.op = "parse"
    /\ call.args[2] = Str(Label.FIS_FIXED)
    /\ IsString(call.args[1])
    /\ Length(call.args[1].s) = 99
    /\ call.outcome = Throw(<<"FIS fixed width parsing failed: ",
                              "Invalid FIS fixed width: message too short">>)

\* C23: validate(message) never throws and never changes the counters; it
\* returns false for null, undefined, non-strings and strings that are empty
\* after trimming, and for every other string it returns true exactly when
\* detectFormat(message) is not UNKNOWN.
C23_ValidateAnswers ==
    call.op = "validate" =>
        LET message == call.args[1]
            Boolean(b) == [t |-> "boolean", s |-> IF b THEN <<"true">> ELSE <<"false">>]
        IN  /\ metrics = call.before
            /\ call.outcome =
                 Return(IF ~IsString(message) THEN Boolean(FALSE)
                        ELSE IF Trim(message.s) = <<>> THEN Boolean(FALSE)
                        ELSE Boolean(detectFormat(message) # Return(Str(Label.UNKNOWN))))

\* validate answers true for a text that is not a SWIFT message, and false
\* for another string that is not blank.
C23_TrueForJson ==
    /\ call.op = "validate"
    /\ call.args[1] = Str(Fixture.TEMENOS_JSON_SAMPLE)
    /\ call.outcome = Return(True)
    /\ validate(Str(<<"invalid message 1">>)) = Return([True EXCEPT !.s = <<"false">>])

\* C24: validateBIC never throws; it returns true exactly for strings of
\* length 8 or 11 that, compared case-insensitively, consist of 4 letters,
\* 2 letters, 2 alphanumerics and, when 11 long, 3 more alphanumerics, and
\* false for every other string and for null, undefined and non-strings.
C24_BicShape ==
    call.op = "validateBIC" =>
        LET bic == call.args[1]
            Letters == {"A", "B", "C", "D", "E", "F", "G", "H", "I", "J", "K", "L", "M", "N",
                        "O", "P", "Q", "R", "S", "T", "U", "V", "W", "X", "Y", "Z"}
            Digits == {"0", "1", "2", "3", "4", "5", "6", "7", "8", "9"}
            Shaped(chars) ==
                /\ Len(chars) \in {8, 11}
                /\ \A i \in 1..6 : UpperTok(chars[i]) \in Letters
                /\ \A i \in 7..Len(chars) : UpperTok(chars[i]) \in Letters \cup Digits
        IN  /\ Returned(call.outcome)
            /\ call.outcome.value = True <=> (IsString(bic) /\ Shaped(bic.s))
            /\ call.outcome.value # True => call.outcome.value = [True EXCEPT !.s = <<"false">>]

\* C25: bancs.parseXML, given a payload with a <Transaction> element that
\* has TransactionID, Amount, Currency, DebitAccount, CreditAccount and
\* Description children, returns a record with messageType BANCS_XML whose
\* fields are the text of those elements; it fails only when the
\* <Transaction> element is absent; and the same holds through parse for a
\* payload detected as BANCS_XML.
C25_BancsXmlRecord ==
    call.op = "bancs.parseXML" =>
        LET xmlMessage == call.args[1].s
            ElementText(open) ==
                LET i == CHOOSE i \in DOMAIN xmlMessage : xmlMessage[i] = open
                IN  <<xmlMessage[i + 1]>>
        IN  /\ Thrown(call.outcome) <=> ~Includes(xmlMessage, <<"<", "Transaction", ">">>)
            /\ ( /\ Includes(xmlMessage, <<"<", "Transaction", ">">>)
                 /\ Includes(xmlMessage, <<"<", "Transaction", "ID", ">">>)
                 /\ Includes(xmlMessage, <<"<Currency>">>) ) =>
                    /\ Returned(call.outcome)
                    /\ call.outcome.value.messageType = Label.BANCS_XML
                    /\ call.outcome.value.transactionId = <<"TXN789012345">>
                    /\ call.outcome.value.currency = ElementText("<Currency>")
            /\ detectFormat(call.args[1]) = Return(Str(Label.BANCS_XML)) =>
                    parse(ZeroMetrics, call.args[1], Undefined, call.envs[1]).outcome
                        = call.outcome

\* C26: temenos.parseT24 splits each line on its first '=' only: the key is
\* the text before it and the value all the text after it, further '='
\* included, both trimmed; lines without '=' are ignored; and it fails with
\* the missing-TXN.REF error whenever no line gives TXN.REF a value that is
\* not empty.
C26_T24FirstEquals ==
    call.op = "temenos.parseT24" =>
        LET lines == Split(call.args[1].s, "\n")
            First(line) == CHOOSE i \in DOMAIN line :
                               line[i] = "=" /\ \A j \in 1..(i - 1) : line[j] # "="
            Given(key) ==
                { Trim(SubSeq(lines[k], First(lines[k]) + 1, Len(lines[k]))) :
                    k \in { n \in DOMAIN lines :
                              /\ Includes(lines[n], <<"=">>)
                              /\ Trim(SubSeq(lines[n], 1, First(lines[n]) - 1)) = <<key>> } }
        IN  IF Given("TXN.REF") \subseteq { <<>> }
            THEN call.outcome = Throw(<<"Temenos T24 parsing failed: ",
                                        "Invalid Temenos T24: missing TXN.REF">>)
            ELSE /\ Returned(call.outcome)
                 /\ call.outcome.value.transactionReference \in Given("TXN.REF")
                 /\ Given("NARRATIVE") # {} =>
                        call.outcome.value.narrative \in Given("NARRATIVE")

\* C28: only parse changes the counters: detectFormat, validate,
\* getSupportedFormats, toJSON, getMetrics and the four enterprise stubs
\* leave totalParsed, successfulParses and failedParses unchanged, and so
\* does a parseWithFormat call that is rejected as unsupported or as a format
\* mismatch.
C28_OnlyParseCounts ==
    /\ call.op \in {"detectFormat", "validate", "getSupportedFormats", "toJSON",
                     "getMetrics", "transpileCOBOL", "convertToBlockchain",
                     "extractCompliance", "routeMessage"} => metrics = call.before
    /\ ( /\ call.op = "parseWithFormat"
         /\ Thrown(call.outcome)
         /\ \/ StartsWith(call.outcome.error, <<"Unsupported format: ">>)
            \/ StartsWith(call.outcome.error, <<"Format mismatch: expected ">>) ) =>
            metrics = call.before
    /\ metrics # call.before => call.op \in {"parse", "parseWithFormat", "batchParse"}

\* A parseWithFormat call rejected as a format mismatch by a parser that has
\* parsed before.
C28_MismatchNotCounted ==
    /\ call.op = "parseWithFormat"
    /\ Thrown(call.outcome)
    /\ StartsWith(call.outcome.error, <<"Format mismatch: expected ">>)
    /\ metrics.successfulParses >= 1
    /\ metrics.failedParses >= 1

\* C29: for a block 4 of the form {4:<tag:content pairs>-}, the content the
\* base SWIFT extractor stores for each field, the last field included, does
\* not contain the block's terminating hyphen; so a message whose last field
\* is 32A with content matching the amount pattern is accepted, and the
\* address of a customer field that comes last is not '-'.
C29_NoTerminatorInContent ==
    (call.op = "swift.parse" /\ IsString(call.args[1])) =>
        LET s == call.args[1].s
            n == Len(s)
            record == call.outcome.value
            AmountLast ==
                /\ n > 9
                /\ SubSeq(s, n - 8, n) \in
                      { <<":32A:", "230701", "USD", "1000", ",", "00", "\n", "-", "}">>,
                        <<"\n", ":32A:", "230101", "EUR", "500", "\n", "-", "}">> }
                /\ Includes(s, <<"{2:", "I202">>)
                /\ \A tag \in {":20:", ":52A:", ":58A:"} : Includes(s, <<tag>>)
        IN  /\ Returned(call.outcome) =>
                /\ \A tag \in DOMAIN record.originalFields :
                       ~Includes(record.originalFields[tag], <<"-">>)
                /\ ("receiver" \in DOMAIN record /\ record.receiver # Null) =>
                       \A k \in DOMAIN record.receiver.addressLines :
                           record.receiver.addressLines[k] # <<"-">>
            /\ AmountLast => Returned(call.outcome)

\* C30: when parse is given a hint that starts with MT, in any letter case,
\* the hint only selects the base SWIFT extractor: the record's messageType
\* is the type code of the payload's {2:I...} header, not the hint, so
\* parse(p, 'MT103') on a payload whose header says 202 returns MT202, and a
\* hint naming any other MT type on an MT103 or MT202 payload returns that
\* payload's own type.
C30_HintSelectsExtractorOnly ==
    ( /\ call.op = "parse"
      /\ IsString(call.args[2])
      /\ StartsWith(ToUpperCase(call.args[2].s), <<"MT">>)
      /\ IsString(call.args[1])
      /\ Trim(call.args[1].s) # <<>> ) =>
        LET message == call.args[1]
            env == call.envs[1]
            Timed(o) == IF Returned(o) THEN Return(addTimingMetadata(o.value, env)) ELSE o
        IN  /\ call.outcome = Timed(swift_parse(message, env))
            /\ Returned(call.outcome) =>
                   call.outcome.value.messageType = MT(HeaderCode(message.s))
            /\ message.s = Fixture.VALID_MT103 =>
                   Returned(call.outcome) /\ call.outcome.value.messageType = MT("103")
            /\ message.s = Fixture.VALID_MT202 =>
                   Returned(call.outcome) /\ call.outcome.value.messageType = MT("202")

\* parse(p, 'MT103') on a payload whose header says 202.
C30_Mt202UnderMt103Hint ==
    /\ call.op = "parse"
    /\ call.args = <<Str(Fixture.VALID_MT202), Str(MT("103"))>>
    /\ Returned(call.outcome)
    /\ call.outcome.value.messageType = MT("202")

====
